---- MODULE Spec2Model ----
(***************************************************************************)
(* A model of the notebook sessions of the eo2cube beginner's guide: a     *)
(* labelled multi-dimensional dataset is loaded from the data cube, then   *)
(* subset by position (isel) and by label (sel), reduced, masked and       *)
(* extended with computed variables; in the dask notebook the same dataset *)
(* is loaded in chunks, extended lazily and materialised with compute().   *)
(*                                                                         *)
(* Positions are 0-based as in the notebooks.  A timestamp is a number of  *)
(* ticks, TicksPerDay ticks to the day, counted from 1 January EpochYear.  *)
(***************************************************************************)
EXTENDS Integers, Sequences, FiniteSets, TLC

\* ---------------------------------------------------------------- bounds
\* Scenes the archive holds at most.
MaxScenes == 3
\* Columns and rows of the loaded extent.
NX == 2
NY == 2
\* Resolution of a timestamp within a day.
TicksPerDay == 3
\* Resolution of a floating point quotient: it is kept to 1/FloatScale.
FloatScale == 100

\* ---------------------------------------------------------------- calendar
EpochYear == 2018

IsLeap(y) == (y % 4 = 0 /\ y % 100 # 0) \/ (y % 400 = 0)

DaysInMonth(y, m) ==
  IF m \in {1, 3, 5, 7, 8, 10, 12} THEN 31
  ELSE IF m \in {4, 6, 9, 11} THEN 30
  ELSE IF IsLeap(y) THEN 29 ELSE 28

DaysInYear(y) == IF IsLeap(y) THEN 366 ELSE 365

RECURSIVE DaysBeforeMonth(_, _)
DaysBeforeMonth(y, m) ==
  IF m <= 1 THEN 0 ELSE DaysBeforeMonth(y, m - 1) + DaysInMonth(y, m - 1)

RECURSIVE DaysBeforeYear(_)
DaysBeforeYear(y) ==
  IF y <= EpochYear THEN 0 ELSE DaysBeforeYear(y - 1) + DaysInYear(y - 1)

\* A date string: res is the resolution the string is written at
\* ("2020" year, "2020-12" month, "2020-12-25" day); the unused fields are 1.
\* A label given as a full timestamp has res "tick" and carries its ticks in t.
DateStr(res, y, m, d) == [res |-> res, y |-> y, m |-> m, d |-> d, t |-> 0]
Timestamp(t) == [res |-> "tick", y |-> EpochYear, m |-> 1, d |-> 1, t |-> t]
Year(y) == DateStr("year", y, 1, 1)
Month(y, m) == DateStr("month", y, m, 1)
Day(y, m, d) == DateStr("day", y, m, d)

\* The parser rejects a month outside 1..12 and a day the month does not have.
ValidDate(s) == s.m \in 1..12 /\ s.d \in 1..DaysInMonth(s.y, s.m)

DayNumber(y, m, d) == DaysBeforeYear(y) + DaysBeforeMonth(y, m) + (d - 1)

\* First and last tick of the period a date string names.
PeriodStart(s) ==
  IF s.res = "tick" THEN s.t ELSE DayNumber(s.y, s.m, s.d) * TicksPerDay
PeriodEnd(s) ==
  IF s.res = "tick" THEN s.t
  ELSE IF s.res = "year" THEN DayNumber(s.y + 1, 1, 1) * TicksPerDay - 1
  ELSE IF s.res = "month"
       THEN (DayNumber(s.y, s.m, 1) + DaysInMonth(s.y, s.m)) * TicksPerDay - 1
       ELSE (DayNumber(s.y, s.m, s.d) + 1) * TicksPerDay - 1

\* ---------------------------------------------------------------- sequences
Range(s) == {s[k] : k \in 1..Len(s)}

IndexOf(s, e) == CHOOSE k \in 1..Len(s) : s[k] = e

RemoveAt(s, k) == [n \in 1..(Len(s) - 1) |-> IF n < k THEN s[n] ELSE s[n + 1]]

InsertAt(s, k, e) ==
  [n \in 1..(Len(s) + 1) |-> IF n < k THEN s[n] ELSE IF n = k THEN e ELSE s[n - 1]]

Min(a, b) == IF a < b THEN a ELSE b
Max(a, b) == IF a > b THEN a ELSE b

StrictlyIncreasing(s) == \A k \in 1..(Len(s) - 1) : s[k] < s[k + 1]

\* The positions start, start+1, .., stop-1 as a sequence.
Arange(start, stop) ==
  [k \in 1..Max(stop - start, 0) |-> start + k - 1]

\* ---------------------------------------------------------------- the data cube
\* Resolution of the loaded grid: resolution = (-10, 10), rows run north to
\* south, so the y labels decrease and the x labels increase.
ResY == -10
ResX == 10

\* Days on which the product may hold a scene.
SceneDays ==
  { DayNumber(2020, 10, 3), DayNumber(2020, 11, 30), DayNumber(2020, 12, 1),
    DayNumber(2020, 12, 25), DayNumber(2020, 12, 26), DayNumber(2020, 4, 20) }

\* group_by = "solar_day": one time step a day, stamped with the time of the
\* overpass, which is never midnight.
AcqTime(day) == day * TicksPerDay + 1 + (day % (TicksPerDay - 1))

DayOf(ts) == ts \div TicksPerDay

Archives ==
  { A \in SUBSET SceneDays : Cardinality(A) = Min(MaxScenes, Cardinality(SceneDays)) }

BandNo(b) ==
  CASE b = "blue" -> 1 [] b = "green" -> 2 [] b = "red" -> 3
    [] b = "nir" -> 4 [] b = "nir_1" -> 4 [] OTHER -> 5

\* The digital number the product stores for a band at a time, row and column;
\* for the scene classification SCL, one of its twelve classes.
DN(b, ts, r, c) ==
  LET raw == (BandNo(b) * 7 + ts * 3 + r * 5 + c * 11) % 17
  IN IF b = "SCL" THEN raw % 12 ELSE raw * 50

\* The missing-value sentinel of a floating point array, and the infinities.
NaN == 0 - 99999
NegInf == NaN + 1
PosInf == 0 - NegInf

IsNum(v) == v \notin {NaN, NegInf, PosInf}

\* Floating point arithmetic on two values; a missing operand gives a missing
\* result, and so does 0/0.
FAdd(a, b) == IF IsNum(a) /\ IsNum(b) THEN a + b ELSE NaN
FSub(a, b) == IF IsNum(a) /\ IsNum(b) THEN a - b ELSE NaN
FDiv(a, b) ==
  IF ~IsNum(a) \/ ~IsNum(b) THEN NaN
  ELSE IF b = 0 THEN (IF a = 0 THEN NaN ELSE IF a > 0 THEN PosInf ELSE NegInf)
  ELSE (a * FloatScale) \div b

\* ---------------------------------------------------------------- containers
\* A container (xarray.Dataset, or a DataArray when it holds one variable):
\*   dims    the axes it has, in order
\*   coords  axis -> the sequence of labels along it
\*   point   the label of each axis a single position or label selected away
\*   vars    name -> [dims, dtype, data], data a function of the position tuple
\*   attrs   the metadata dictionary
AxisOrder == <<"time", "y", "x">>

Dims(c) == Range(c.dims)

SortedLabels(S) ==
  CHOOSE s \in [1..Cardinality(S) -> S] : Range(s) = S /\ StrictlyIncreasing(s)

ShapeOf(coords, dims) == [k \in 1..Len(dims) |-> Len(coords[dims[k]])]

\* Every position tuple of an array of the given shape.
IndexSpace(shape) ==
  IF \E k \in 1..Len(shape) : shape[k] = 0 THEN {}
  ELSE LET top == IF Len(shape) = 0 THEN 0
                  ELSE CHOOSE n \in Range(shape) : \A q \in Range(shape) : q <= n
       IN { idx \in [1..Len(shape) -> 0..(top - 1)] :
              \A k \in 1..Len(shape) : idx[k] < shape[k] }

VarNames(c) == DOMAIN c.vars

NoPoint == [a \in {} |-> 0]

\* dc.load(product, x, y, time = (lo, hi), measurements, resolution,
\* group_by = "solar_day"): the scenes of the archive inside the time range.
DcLoad(archive, lo, hi, measurements) ==
  LET days == { d \in archive : PeriodStart(lo) <= AcqTime(d) /\ AcqTime(d) <= PeriodEnd(hi) }
      times == SortedLabels({ AcqTime(d) : d \in days })
      coords == [a \in Range(AxisOrder) |->
                   IF a = "time" THEN times
                   ELSE IF a = "y" THEN [k \in 1..NY |-> (k - 1) * ResY]
                   ELSE [k \in 1..NX |-> (k - 1) * ResX]]
      shape == ShapeOf(coords, AxisOrder)
  IN [ dims |-> AxisOrder,
       coords |-> coords,
       point |-> NoPoint,
       vars |-> [b \in measurements |->
                  [ dims |-> AxisOrder,
                    dtype |-> "uint16",
                    data |-> [idx \in IndexSpace(shape) |->
                                DN(b, times[idx[1] + 1], idx[2], idx[3])] ]],
       attrs |-> [crs |-> "EPSG:32632", grid_mapping |-> "spatial_ref"] ]

\* The value of a cell that raised: no container.
Nothing ==
  [ dims |-> <<>>, coords |-> NoPoint, point |-> NoPoint, vars |-> NoPoint,
    attrs |-> [crs |-> "", grid_mapping |-> ""] ]

Ok(c) == [err |-> "none", val |-> c]
Raise(e) == [err |-> e, val |-> Nothing]

\* ---------------------------------------------------------------- selection by position
\* TakeVar as it would be if the data were left whole while the coordinate is cut.
TakeVarWhole(v, coords, axis, pos) == v

\* Keep the positions pos (a sequence) of an axis of one variable.
TakeVar(v, coords, axis, pos) ==
  IF axis \notin Range(v.dims) THEN v
  ELSE LET k == IndexOf(v.dims, axis)
           shape == [ShapeOf(coords, v.dims) EXCEPT ![k] = Len(pos)]
       IN [ dims |-> v.dims,
            dtype |-> v.dtype,
            data |-> [idx \in IndexSpace(shape) |->
                        v.data[[idx EXCEPT ![k] = pos[idx[k] + 1]]]] ]

\* Keep the single position p of an axis of one variable: the axis goes.
PickVar(v, coords, axis, p) ==
  IF axis \notin Range(v.dims) THEN v
  ELSE LET k == IndexOf(v.dims, axis)
           ndims == RemoveAt(v.dims, k)
       IN [ dims |-> ndims,
            dtype |-> v.dtype,
            data |-> [idx \in IndexSpace(ShapeOf(coords, ndims)) |->
                        v.data[InsertAt(idx, k, p)]] ]

\* Take as it would be if the selection did not carry the attributes over.
TakeDropsAttrs(c, axis, pos) ==
  [ dims |-> c.dims,
    coords |-> [a \in DOMAIN c.coords |->
                  IF a = axis THEN [n \in 1..Len(pos) |-> c.coords[a][pos[n] + 1]]
                  ELSE c.coords[a]],
    point |-> c.point,
    vars |-> [n \in DOMAIN c.vars |-> TakeVar(c.vars[n], c.coords, axis, pos)],
    attrs |-> [crs |-> "", grid_mapping |-> ""] ]

\* isel(axis = [p1, p2, ..]) and isel(axis = slice(i, j)) once the slice is
\* resolved to positions: the axis stays, as long as the list.
Take(c, axis, pos) ==
  [ dims |-> c.dims,
    coords |-> [a \in DOMAIN c.coords |->
                  IF a = axis THEN [n \in 1..Len(pos) |-> c.coords[a][pos[n] + 1]]
                  ELSE c.coords[a]],
    point |-> c.point,
    vars |-> [n \in DOMAIN c.vars |-> TakeVar(c.vars[n], c.coords, axis, pos)],
    attrs |-> c.attrs ]

\* Pick as it would be if a single position kept its axis, with length 1.
PickKeepsAxis(c, axis, p) == Take(c, axis, <<p>>)

\* isel(axis = p): the axis leaves dims and its label stays as a scalar coordinate.
Pick(c, axis, p) ==
  [ dims |-> RemoveAt(c.dims, IndexOf(c.dims, axis)),
    coords |-> [a \in DOMAIN c.coords \ {axis} |-> c.coords[a]],
    point |-> [a \in DOMAIN c.point \cup {axis} |->
                 IF a = axis THEN c.coords[axis][p + 1] ELSE c.point[a]],
    vars |-> [n \in DOMAIN c.vars |-> PickVar(c.vars[n], c.coords, axis, p)],
    attrs |-> c.attrs ]

\* SlicePositions as it would be if the stop were included.
SlicePositionsClosed(i, j, n) == Arange(Min(i, n), Min(j + 1, n))

\* slice(i, j) on an axis of length n: start inclusive, stop exclusive, both
\* clipped to the axis.
SlicePositions(i, j, n) == Arange(Min(i, n), Min(j, n))

\* A positional selector: an integer, a slice or a list of positions.
AtInt(p) == [kind |-> "int", i |-> p, j |-> 0, pos |-> <<>>]
AtSlice(i, j) == [kind |-> "slice", i |-> i, j |-> j, pos |-> <<>>]
AtList(pos) == [kind |-> "list", i |-> 0, j |-> 0, pos |-> pos]

\* isel on one axis.
Isel1(c, axis, s) ==
  IF axis \notin Dims(c) THEN Raise("ValueError")
  ELSE LET n == Len(c.coords[axis]) IN
    IF s.kind = "int"
    THEN IF s.i \in 0..(n - 1) THEN Ok(Pick(c, axis, s.i)) ELSE Raise("IndexError")
    ELSE IF s.kind = "slice"
    THEN Ok(Take(c, axis, SlicePositions(s.i, s.j, n)))
    ELSE IF \A k \in 1..Len(s.pos) : s.pos[k] \in 0..(n - 1)
         THEN Ok(Take(c, axis, s.pos)) ELSE Raise("IndexError")

\* isel(**indexers): the selectors of the named axes, axis by axis.
RECURSIVE IselFrom(_, _, _)
IselFrom(r, ix, k) ==
  IF k > Len(AxisOrder) \/ r.err # "none" THEN r
  ELSE IF AxisOrder[k] \in DOMAIN ix
       THEN IselFrom(Isel1(r.val, AxisOrder[k], ix[AxisOrder[k]]), ix, k + 1)
       ELSE IselFrom(r, ix, k + 1)

Isel(c, ix) == IselFrom(Ok(c), ix, 1)

\* ds.blue, ds['blue']: the array of one variable with its coordinates.
GetVar(c, name) ==
  IF name \notin DOMAIN c.vars THEN Raise("AttributeError")
  ELSE Ok([ c EXCEPT !.dims = c.vars[name].dims,
                     !.coords = [a \in Range(c.vars[name].dims) |-> c.coords[a]],
                     !.vars = [n \in {name} |-> c.vars[name]] ])

\* da[p]: the position p of the array's first axis.
GetItem(c, p) ==
  IF Len(c.dims) = 0 THEN Raise("IndexError") ELSE Isel1(c, c.dims[1], AtInt(p))

\* ---------------------------------------------------------------- reshaping
\* measurements = ["blue", "green", "red", "nir"]: the order of the variables.
Measurements == <<"blue", "green", "red", "nir">>

\* xr.Dataset({name: da}), da.to_dataset(): the array as the only variable of
\* a new dataset, with its coordinates; the new dataset has no attributes.
NewDataset(a) == [ a EXCEPT !.attrs = Nothing.attrs ]

\* c.to_array().rename({"variable": "band"}): the variables stacked, in their
\* order, along a new first axis that is labelled with their names.
ToArray(c) ==
  LET bands == SelectSeq(Measurements, LAMBDA n : n \in VarNames(c))
      dims == <<"band">> \o c.dims
      coords == [a \in DOMAIN c.coords \cup {"band"} |->
                   IF a = "band" THEN bands ELSE c.coords[a]]
      types == { c.vars[n].dtype : n \in VarNames(c) }
  IN [ dims |-> dims,
       coords |-> coords,
       point |-> c.point,
       attrs |-> c.attrs,
       vars |-> [n \in {"array"} |->
         [ dims |-> dims,
           dtype |-> IF Cardinality(types) = 1 THEN CHOOSE t \in types : TRUE
                     ELSE "float64",
           data |-> [idx \in IndexSpace(ShapeOf(coords, dims)) |->
                       c.vars[bands[idx[1] + 1]].data[RemoveAt(idx, 1)]] ]] ]

\* SliceOf as it would be if every variable were cut at the first label.
SliceOfFirst(v, k, i, idx) == v.data[InsertAt(idx, k, 0)]

\* The value at idx of the slice of an array at position i of its axis k.
SliceOf(v, k, i, idx) == v.data[InsertAt(idx, k, i - 1)]

\* a.to_dataset(dim = d): one variable for each label of the axis d, named
\* by the label, holding the slice of the array at that label.
ToDataset(a, d) ==
  LET v == a.vars["array"]
      k == IndexOf(v.dims, d)
      labels == a.coords[d]
      rest == RemoveAt(v.dims, k)
      NameOf(i) == IF d = "band" THEN labels[i] ELSE ToString(labels[i])
  IN [ dims |-> rest,
       coords |-> [x \in DOMAIN a.coords \ {d} |-> a.coords[x]],
       point |-> a.point,
       attrs |-> a.attrs,
       vars |-> [n \in { NameOf(i) : i \in 1..Len(labels) } |->
         LET i == CHOOSE j \in 1..Len(labels) : NameOf(j) = n
         IN [ dims |-> rest,
              dtype |-> v.dtype,
              data |-> [idx \in IndexSpace(ShapeOf(a.coords, rest)) |->
                          SliceOf(v, k, i, idx)] ]] ]

\* ---------------------------------------------------------------- selection by label
\* Where a label would be inserted into an increasing index: before the
\* entries equal to it (left) or after them (right).
SearchLeft(labels, v) == Cardinality({k \in 1..Len(labels) : labels[k] < v})
SearchRight(labels, v) == Cardinality({k \in 1..Len(labels) : labels[k] <= v})

\* SelSlice as it would be if the upper bound were excluded, as a position
\* slice excludes its stop.
SelSliceHalfOpen(c, axis, lo, hi) ==
  IF axis \notin Dims(c) THEN Raise("ValueError")
  ELSE IF ~ValidDate(lo) \/ ~ValidDate(hi) THEN Raise("ValueError")
  ELSE LET labels == c.coords[axis]
           start == SearchLeft(labels, PeriodStart(lo))
           stop == SearchLeft(labels, PeriodStart(hi))
       IN Ok(Take(c, axis, Arange(start, stop)))

\* sel(axis = slice(lo, hi)): the lower bound resolves to the first instant of
\* lo and the upper bound to the last instant of hi; both ends are kept.
SelSlice(c, axis, lo, hi) ==
  IF axis \notin Dims(c) THEN Raise("ValueError")
  ELSE IF ~ValidDate(lo) \/ ~ValidDate(hi) THEN Raise("ValueError")
  ELSE LET labels == c.coords[axis]
           start == SearchLeft(labels, PeriodStart(lo))
           stop == SearchRight(labels, PeriodEnd(hi))
       IN Ok(Take(c, axis, Arange(start, stop)))

\* SelLabel as it would be if a timestamp that is not in the index fell back
\* on the nearest earlier sample.
SelLabelNearest(c, axis, lab) ==
  IF axis \notin Dims(c) THEN Raise("ValueError")
  ELSE IF ~ValidDate(lab) THEN Raise("KeyError")
  ELSE LET labels == c.coords[axis]
           n == Len(labels)
       IN IF lab.res = "tick"
          THEN IF SearchRight(labels, lab.t) > 0
               THEN Ok(Pick(c, axis, SearchRight(labels, lab.t) - 1))
               ELSE Raise("KeyError")
          ELSE IF n > 0 /\ (PeriodEnd(lab) < labels[1] \/ PeriodStart(lab) > labels[n])
               THEN Raise("KeyError")
               ELSE Ok(Take(c, axis, Arange(SearchLeft(labels, PeriodStart(lab)),
                                            SearchRight(labels, PeriodEnd(lab)))))

\* sel(axis = label).  A full timestamp is looked up exactly and the axis goes;
\* a date string coarser than the index names a period and selects the slice
\* of the index inside it.
SelLabel(c, axis, lab) ==
  IF axis \notin Dims(c) THEN Raise("ValueError")
  ELSE IF ~ValidDate(lab) THEN Raise("KeyError")
  ELSE LET labels == c.coords[axis]
           n == Len(labels)
       IN IF lab.res = "tick"
          THEN IF \E k \in 1..n : labels[k] = lab.t
               THEN Ok(Pick(c, axis, IndexOf(labels, lab.t) - 1))
               ELSE Raise("KeyError")
          ELSE IF n > 0 /\ (PeriodEnd(lab) < labels[1] \/ PeriodStart(lab) > labels[n])
               THEN Raise("KeyError")
               ELSE Ok(Take(c, axis, Arange(SearchLeft(labels, PeriodStart(lab)),
                                            SearchRight(labels, PeriodEnd(lab)))))

\* ---------------------------------------------------------------- arithmetic, reduction, masking
\* The value of the product that marks a pixel without data.
NoData == 0

UInt16Modulus == 2 ^ 16

\* odc.algo.to_f32(ds): every band as floating point, the pixels without data
\* as the missing value.
ToF32(c) ==
  [ c EXCEPT !.vars = [n \in DOMAIN c.vars |->
      [ dims |-> c.vars[n].dims,
        dtype |-> "float32",
        data |-> [idx \in DOMAIN c.vars[n].data |->
                    IF c.vars[n].data[idx] = NoData THEN NaN ELSE c.vars[n].data[idx]] ]] ]

\* Sub as it would be if the difference were always taken in 16 bits.
SubWrapped(dtype, a, b) == (a - b) % UInt16Modulus

\* a - b and a + b in the arithmetic of the arrays' type: 16-bit unsigned
\* integers wrap around, floating point values do not.
Sub(dtype, a, b) == IF dtype = "uint16" THEN (a - b) % UInt16Modulus ELSE FSub(a, b)
Add(dtype, a, b) == IF dtype = "uint16" THEN (a + b) % UInt16Modulus ELSE FAdd(a, b)

\* (a - b) / (a + b), pixel by pixel, of two variables of the same container;
\* the quotient is floating point.
NormalisedDifference(c, a, b) ==
  [ dims |-> c.vars[a].dims,
    dtype |-> IF c.vars[a].dtype = "uint16" THEN "float64" ELSE c.vars[a].dtype,
    data |-> [idx \in DOMAIN c.vars[a].data |->
                FDiv(Sub(c.vars[a].dtype, c.vars[a].data[idx], c.vars[b].data[idx]),
                     Add(c.vars[a].dtype, c.vars[a].data[idx], c.vars[b].data[idx]))] ]

\* ds[name] = array: the variable is added, or replaced, in place.
SetVar(c, name, v) ==
  [ c EXCEPT !.vars = [n \in DOMAIN c.vars \cup {name} |->
                         IF n = name THEN v ELSE c.vars[n]] ]

RECURSIVE SumOf(_, _)
SumOf(f, S) ==
  IF S = {} THEN 0
  ELSE LET e == CHOOSE x \in S : TRUE IN f[e] + SumOf(f, S \ {e})

\* Preimage as it would be if every output were computed from the whole array.
PreimageAll(v, keep, idx) == DOMAIN v.data

\* The positions of an array that a position of the reduced array stands for.
Preimage(v, keep, idx) ==
  { full \in DOMAIN v.data :
      \A k \in 1..Len(keep) : full[IndexOf(v.dims, keep[k])] = idx[k] }

\* The k-th smallest of the values at a set of positions.
Kth(f, S, k) ==
  CHOOSE m \in { f[e] : e \in S } :
    /\ Cardinality({ e \in S : f[e] < m }) < k
    /\ k <= Cardinality({ e \in S : f[e] <= m })

\* The median: the middle value, or the mean of the two middle values.
MedianOf(f, S) ==
  LET n == Cardinality(S) IN
  IF n % 2 = 1 THEN Kth(f, S, (n + 1) \div 2)
  ELSE (Kth(f, S, n \div 2) + Kth(f, S, n \div 2 + 1)) \div 2

\* The standard deviation of the whole population (ddof = 0), rounded down.
StdOf(f, S) ==
  LET n == Cardinality(S)
      sq == [ e \in S |-> f[e] * f[e] ]
      num == n * SumOf(sq, S) - SumOf(f, S) * SumOf(f, S)
      top == Kth(f, S, n) - Kth(f, S, 1)
  IN CHOOSE r \in 0..top :
       r * r * n * n <= num /\ num < (r + 1) * (r + 1) * n * n

\* sum, max, min, mean, median and std of the values at a set of positions; the
\* missing values are skipped, and a mean is rounded down to a whole number.
Aggregate(fn, f, S) ==
  LET good == { e \in S : IsNum(f[e]) } IN
  IF fn = "sum" THEN SumOf(f, good)
  ELSE IF good = {} THEN NaN
  ELSE IF fn = "max" THEN CHOOSE m \in { f[e] : e \in good } : \A e \in good : f[e] <= m
  ELSE IF fn = "min" THEN CHOOSE m \in { f[e] : e \in good } : \A e \in good : m <= f[e]
  ELSE IF fn = "median" THEN MedianOf(f, good)
  ELSE IF fn = "std" THEN StdOf(f, good)
  ELSE SumOf(f, good) \div Cardinality(good)

ReduceVar(v, coords, over, fn) ==
  LET keep == SelectSeq(v.dims, LAMBDA a : a \notin over) IN
  [ dims |-> keep,
    dtype |-> IF fn \in {"mean", "median", "std"} /\ v.dtype = "uint16"
              THEN "float64" ELSE v.dtype,
    data |-> [idx \in IndexSpace(ShapeOf(coords, keep)) |->
                Aggregate(fn, v.data, Preimage(v, keep, idx))] ]

\* c.max(), c.mean(dim = ["x", "y"]), c.sum(dim = [..]): the axes in over go,
\* with their coordinates, and the attributes are not kept.
Reduce(c, over, fn) ==
  [ dims |-> SelectSeq(c.dims, LAMBDA a : a \notin over),
    coords |-> [a \in DOMAIN c.coords \ over |-> c.coords[a]],
    point |-> c.point,
    vars |-> [n \in DOMAIN c.vars |-> ReduceVar(c.vars[n], c.coords, over, fn)],
    attrs |-> Nothing.attrs ]

\* WhereGreater as it would be if the comparison were not strict.
WhereGreaterOrEqual(c, name, threshold, other) ==
  [ c EXCEPT !.vars = [n \in DOMAIN c.vars |->
      [ dims |-> c.vars[n].dims,
        dtype |-> c.vars[n].dtype,
        data |-> [idx \in DOMAIN c.vars[n].data |->
                    IF c.vars[name].data[idx] >= threshold
                    THEN c.vars[n].data[idx] ELSE other] ]] ]

\* c.where(c[name] > threshold, other): the values where the condition holds,
\* other elsewhere.  The condition has the axes of the variable it is built on.
WhereGreater(c, name, threshold, other) ==
  [ c EXCEPT !.vars = [n \in DOMAIN c.vars |->
      [ dims |-> c.vars[n].dims,
        dtype |-> IF other = NaN /\ c.vars[n].dtype = "uint16"
                  THEN "float64" ELSE c.vars[n].dtype,
        data |-> [idx \in DOMAIN c.vars[n].data |->
                    IF c.vars[name].data[idx] > threshold
                    THEN c.vars[n].data[idx] ELSE other] ]] ]

\* ---------------------------------------------------------------- masks
\* IsIn as it would be if the upper end of the range were a member.
IsInClosed(a, n) == a \in 0..n

\* a in range(n): the members are the integers 0..n-1.
IsIn(a, n) == a \in 0..(n - 1)

\* c[name] != b and c[name].isin(range(b)): a boolean array with the axes and
\* coordinates of the variable.  A missing value differs from every number and
\* is a member of no set.
MaskOf(c, name, rel, b) ==
  LET v == c.vars[name] IN
  [ dims |-> v.dims,
    coords |-> [a \in Range(v.dims) |-> c.coords[a]],
    point |-> c.point,
    attrs |-> IF rel = "isin" THEN c.attrs ELSE Nothing.attrs,
    vars |-> [n \in {name} |->
      [ dims |-> v.dims,
        dtype |-> "bool",
        data |-> [idx \in DOMAIN v.data |->
                    IF rel = "isin" THEN IsIn(v.data[idx], b) ELSE v.data[idx] # b] ]] ]

\* The position in an array with the axes sub that lies under the position
\* idx of an array with the axes dims.
Project(dims, idx, sub) == [k \in 1..Len(sub) |-> idx[IndexOf(dims, sub[k])]]

\* c.where(mask, other): the arrays are broadcast against each other, the axes
\* of c first and then the axes only the mask has; a position keeps the value
\* of c where the mask is true and takes other where it is false.
Where(c, m, other) ==
  LET mv == m.vars[CHOOSE n \in DOMAIN m.vars : TRUE]
      Extra(dims) == SelectSeq(mv.dims, LAMBDA a : a \notin Range(dims))
      coords == [a \in DOMAIN c.coords \cup DOMAIN m.coords |->
                   IF a \in DOMAIN c.coords THEN c.coords[a] ELSE m.coords[a]]
  IN [ dims |-> c.dims \o Extra(c.dims),
       coords |-> coords,
       point |-> [a \in DOMAIN c.point \ DOMAIN coords |-> c.point[a]],
       attrs |-> c.attrs,
       vars |-> [n \in DOMAIN c.vars |->
         LET v == c.vars[n]
             od == v.dims \o Extra(v.dims)
         IN [ dims |-> od,
              dtype |-> IF v.dtype # "uint16" THEN v.dtype
                        ELSE IF other = NaN THEN "float64" ELSE "int32",
              data |-> [idx \in IndexSpace(ShapeOf(coords, od)) |->
                          IF mv.data[Project(od, idx, mv.dims)]
                          THEN v.data[Project(od, idx, v.dims)] ELSE other] ] ] ]

\* The labels of p that q has as well, in the order of p (inner join).
InnerJoin(p, q) == SelectSeq(p, LAMBDA l : l \in Range(q))

\* Reindex as it would be if the arrays were matched position by position.
ReindexByPosition(c, axis, labels) ==
  Take(c, axis, [k \in 1..Len(labels) |-> k - 1])

\* c on the given labels of an axis, each taken from where c has that label.
Reindex(c, axis, labels) ==
  Take(c, axis, [k \in 1..Len(labels) |-> IndexOf(c.coords[axis], labels[k]) - 1])

\* c aligned for a combination of a and b: on every axis that a and b share,
\* c is put on the labels that both have.
RECURSIVE AlignFrom(_, _, _, _)
AlignFrom(c, a, b, k) ==
  IF k > Len(AxisOrder) THEN c
  ELSE LET x == AxisOrder[k] IN
       IF x \in DOMAIN a.coords /\ x \in DOMAIN b.coords /\ x \in DOMAIN c.coords
       THEN AlignFrom(Reindex(c, x, InnerJoin(a.coords[x], b.coords[x])), a, b, k + 1)
       ELSE AlignFrom(c, a, b, k + 1)

Align(c, a, b) == AlignFrom(c, a, b, 1)

\* c.where(mask) and c.where(mask, other) of two arrays that need not have the
\* same labels: with the default fill the two are aligned on the labels both
\* have, with a fill of its own the labels must be the same.
WhereAligned(c, m, other) ==
  IF other = NaN THEN Ok(Where(Align(c, c, m), Align(m, c, m), NaN))
  ELSE IF \E x \in DOMAIN c.coords \cap DOMAIN m.coords : c.coords[x] # m.coords[x]
       THEN Raise("ValueError")
       ELSE Ok(Where(c, m, other))

\* ---------------------------------------------------------------- interpolation and merge
\* The value of the earlier sample, whatever the distance.
LinearPrevious(t0, v0, t1, v1, t) == v0

\* Linear interpolation between the samples (t0, v0) and (t1, v1) at t.
Linear(t0, v0, t1, v1, t) ==
  IF ~IsNum(v0) \/ ~IsNum(v1) THEN NaN
  ELSE IF t1 = t0 THEN v0
  ELSE v0 + ((v1 - v0) * (t - t0)) \div (t1 - t0)

\* The first sample held for every target before or after the axis.
OutsideHoldsEdge(first, final) == first

\* The value at a target before the first or after the last sample of the
\* axis: the missing value, not an error and not an extrapolation.
Outside(first, final) == NaN

\* c.interp(time = [label]): every variable interpolated linearly along time
\* between the two samples around the label; the missing value when the label
\* lies outside the time axis.
Interp(c, t) ==
  LET times == c.coords["time"]
      Around == { i \in 1..(Len(times) - 1) : times[i] <= t /\ t <= times[i + 1] }
  IN [ c EXCEPT
         !.coords = [a \in DOMAIN c.coords |-> IF a = "time" THEN <<t>> ELSE c.coords[a]],
         !.vars = [n \in DOMAIN c.vars |->
           LET v == c.vars[n]
               tpos == IndexOf(v.dims, "time")
           IN [ dims |-> v.dims,
                dtype |-> "float64",
                data |-> [idx \in { q \in DOMAIN v.data : q[tpos] = 0 } |->
                            IF Around = {}
                            THEN Outside(v.data[[idx EXCEPT ![tpos] = 0]],
                                         v.data[[idx EXCEPT ![tpos] = Len(times) - 1]])
                            ELSE LET i == CHOOSE j \in Around : TRUE
                                 IN Linear(times[i], v.data[[idx EXCEPT ![tpos] = i - 1]],
                                           times[i + 1], v.data[[idx EXCEPT ![tpos] = i]],
                                           t)] ]] ]

\* The value of variable n of c at the labels lab (one for each axis of dims):
\* the missing value when c has no such variable or no such label.
ValueAt(c, n, dims, lab) ==
  IF n \notin DOMAIN c.vars THEN NaN
  ELSE IF \E k \in 1..Len(dims) : lab[k] \notin Range(c.coords[dims[k]]) THEN NaN
  ELSE c.vars[n].data[[k \in 1..Len(dims) |-> IndexOf(c.coords[dims[k]], lab[k]) - 1]]

\* The labels of an axis after the join (outer join, the default of merge):
\* an axis that is the same in both inputs is kept as it is, otherwise the
\* labels of either input, in ascending order.
JoinLabels(p, q) == IF p = q THEN p ELSE SortedLabels(Range(p) \cup Range(q))

\* a.merge(b): the axes are joined, the variables of both are kept, and a
\* variable that both have takes at each position the value that is not
\* missing; two different values at one position are a conflict.
Merge(a, b) ==
  LET coords == [x \in DOMAIN a.coords |-> JoinLabels(a.coords[x], b.coords[x])]
      names == DOMAIN a.vars \cup DOMAIN b.vars
      DimsOf(n) == IF n \in DOMAIN a.vars THEN a.vars[n].dims ELSE b.vars[n].dims
      LabelsAt(n, idx) == [k \in 1..Len(DimsOf(n)) |-> coords[DimsOf(n)[k]][idx[k] + 1]]
      Left(n, idx) == ValueAt(a, n, DimsOf(n), LabelsAt(n, idx))
      Right(n, idx) == ValueAt(b, n, DimsOf(n), LabelsAt(n, idx))
      Space(n) == IndexSpace(ShapeOf(coords, DimsOf(n)))
  IN IF \E n \in names : \E idx \in Space(n) :
          Left(n, idx) # NaN /\ Right(n, idx) # NaN /\ Left(n, idx) # Right(n, idx)
     THEN Raise("MergeError")
     ELSE Ok([ dims |-> a.dims,
               coords |-> coords,
               point |-> a.point,
               attrs |-> a.attrs,
               vars |-> [n \in names |->
                 [ dims |-> DimsOf(n),
                   dtype |-> "float64",
                   data |-> [idx \in Space(n) |->
                               IF Left(n, idx) # NaN THEN Left(n, idx)
                               ELSE Right(n, idx)] ]] ])

\* ---------------------------------------------------------------- grouping along time
\* YearOfDay as it would be if every year had 365 days.
YearOfDayNoLeap(d) == EpochYear + d \div 365

\* The calendar year and month a day lies in.
YearOfDay(d) ==
  CHOOSE y \in EpochYear..(EpochYear + 8) :
    DaysBeforeYear(y) <= d /\ d < DaysBeforeYear(y + 1)

MonthOfDay(d) ==
  LET y == YearOfDay(d) IN
  CHOOSE m \in 1..12 : DayNumber(y, m, 1) <= d /\ d < DayNumber(y, m, 1) + DaysInMonth(y, m)

\* time.season: the meteorological season of a month.
SeasonOf(m) ==
  IF m \in {12, 1, 2} THEN "DJF"
  ELSE IF m \in {3, 4, 5} THEN "MAM"
  ELSE IF m \in {6, 7, 8} THEN "JJA" ELSE "SON"

\* The place of a season label among the labels in alphabetical order.
SeasonRank(k) ==
  CASE k = "DJF" -> 1 [] k = "JJA" -> 2 [] k = "MAM" -> 3 [] OTHER -> 4

\* The key of a time label: its year ("time.year"), its season ("time.season"),
\* its month counted from year 0 (resample "m") or its week counted from the
\* first day of EpochYear, a Monday (resample "1w", weeks ending on Sunday).
KeyOf(by, t) ==
  LET d == DayOf(t) IN
  IF by = "year" THEN YearOfDay(d)
  ELSE IF by = "season" THEN SeasonOf(MonthOfDay(d))
  ELSE IF by = "m" THEN YearOfDay(d) * 12 + MonthOfDay(d) - 1
  ELSE d \div 7

RankOf(by, k) == IF by = "season" THEN SeasonRank(k) ELSE k

\* The keys met along a time axis, each once, in the order they are first met.
RECURSIVE AsMet(_, _)
AsMet(by, times) ==
  IF times = <<>> THEN <<>>
  ELSE LET front == AsMet(by, SubSeq(times, 1, Len(times) - 1))
           k == KeyOf(by, times[Len(times)])
       IN IF k \in Range(front) THEN front ELSE Append(front, k)

\* GroupLabels as it would be if the groups came in the order their key is
\* first met.
GroupLabelsAsMet(by, times) == AsMet(by, times)

\* groupby: the distinct keys in ascending order (the season labels in
\* alphabetical order).
GroupLabels(by, times) ==
  LET K == { KeyOf(by, times[i]) : i \in 1..Len(times) } IN
  CHOOSE q \in [1..Cardinality(K) -> K] :
    /\ Range(q) = K
    /\ \A i \in 1..(Cardinality(K) - 1) : RankOf(by, q[i]) < RankOf(by, q[i + 1])

\* resample: every bucket from the one of the first label to the one of the
\* last, the empty ones included.
BucketLabels(by, times) ==
  LET first == KeyOf(by, times[1])
      final == KeyOf(by, times[Len(times)])
  IN [ i \in 1..(final - first + 1) |-> first + i - 1 ]

\* The coordinate value of a group: the key itself for groupby, midnight of
\* the last day of the bucket for resample.
CoordOfKey(by, k) ==
  IF by \in {"year", "season"} THEN k
  ELSE IF by = "m"
       THEN (DayNumber(k \div 12, (k % 12) + 1, 1) + DaysInMonth(k \div 12, (k % 12) + 1) - 1)
              * TicksPerDay
       ELSE (k * 7 + 6) * TicksPerDay

\* SamplesOf as it would be if a bucket also took the samples of the bucket
\* before it.
SamplesOfLeaky(v, times, by, key, idx) ==
  LET tpos == IndexOf(v.dims, "time") IN
  { full \in DOMAIN v.data :
      \A k \in 1..Len(v.dims) :
        IF k = tpos
        THEN RankOf(by, KeyOf(by, times[full[k] + 1])) \in
               {RankOf(by, key) - 1, RankOf(by, key)}
        ELSE full[k] = idx[k] }

\* The positions of a variable that go into the group of a key at an output
\* position: those with that key along time and the same place on the other axes.
SamplesOf(v, times, by, key, idx) ==
  LET tpos == IndexOf(v.dims, "time") IN
  { full \in DOMAIN v.data :
      \A k \in 1..Len(v.dims) :
        IF k = tpos THEN KeyOf(by, times[full[k] + 1]) = key ELSE full[k] = idx[k] }

\* The dataset reduced group by group: the time axis gives way to the axis of
\* the groups, the other axes stay, the attributes are not kept.
Grouped(c, by, axis, labels, fn) ==
  LET Renamed(dims) == [ k \in 1..Len(dims) |-> IF dims[k] = "time" THEN axis ELSE dims[k] ]
      coords == [ a \in (DOMAIN c.coords \ {"time"}) \cup {axis} |->
                    IF a = axis THEN [ i \in 1..Len(labels) |-> CoordOfKey(by, labels[i]) ]
                    ELSE c.coords[a] ]
  IN [ dims |-> Renamed(c.dims),
       coords |-> coords,
       point |-> c.point,
       attrs |-> Nothing.attrs,
       vars |-> [ n \in DOMAIN c.vars |->
         LET v == c.vars[n]
             tpos == IndexOf(v.dims, "time")
         IN [ dims |-> Renamed(v.dims),
              dtype |-> IF v.dtype = "uint16" THEN "float64" ELSE v.dtype,
              data |-> [ idx \in IndexSpace(ShapeOf(coords, Renamed(v.dims))) |->
                           Aggregate(fn, v.data,
                                     SamplesOf(v, c.coords["time"], by,
                                               labels[idx[tpos] + 1], idx)) ] ] ] ]

\* c.groupby('time.year').median(dim = 'time'), c.groupby('time.season').mean()
GroupBy(c, by, fn) == Grouped(c, by, by, GroupLabels(by, c.coords["time"]), fn)

\* c.resample(time = 'm').median(), c.resample(time = '1w').mean()
Resample(c, rule, fn) == Grouped(c, rule, "time", BucketLabels(rule, c.coords["time"]), fn)

\* ---------------------------------------------------------------- derived indices
IndexNames == {"NDVI", "EVI", "SAVI"}

\* The band indices of calculate_indices(.., collection = 's2') at a pixel with
\* reflectances nir, red and blue on the scale 0..10000:
\*   NDVI = (nir - red) / (nir + red)
\*   EVI  = 2.5 (nir - red) / (nir + 6 red - 7.5 blue + 1)
\*   SAVI = 1.5 (nir - red) / (nir + red + 0.5)
\* EVI and SAVI on reflectances scaled to 0..1.
IndexValue(name, nir, red, blue) ==
  IF ~IsNum(nir) \/ ~IsNum(red) \/ (name = "EVI" /\ ~IsNum(blue)) THEN NaN
  ELSE IF name = "NDVI" THEN FDiv(nir - red, nir + red)
  ELSE IF name = "EVI"
       THEN FDiv(5 * (nir - red), 2 * nir + 12 * red - 15 * blue + 20000)
       ELSE FDiv(3 * (nir - red), 2 * (nir + red) + 10000)

\* CalculateIndices as it would be with drop = True: the bands go.
CalculateIndicesDrop(c) ==
  [ c EXCEPT !.vars = [n \in IndexNames |->
      [ dims |-> c.vars["red"].dims,
        dtype |-> "float32",
        data |-> [idx \in DOMAIN c.vars["red"].data |->
                    IndexValue(n, c.vars["nir_1"].data[idx], c.vars["red"].data[idx],
                               c.vars["blue"].data[idx])] ]] ]

\* ds = calculate_indices(ds, index = ['NDVI', 'EVI', 'SAVI'], collection = 's2')
\* on a dataset that holds its values.
CalculateIndices(c) ==
  [ c EXCEPT !.vars = [n \in DOMAIN c.vars \cup IndexNames |->
      IF n \in IndexNames
      THEN [ dims |-> c.vars["red"].dims,
             dtype |-> "float32",
             data |-> [idx \in DOMAIN c.vars["red"].data |->
                         IndexValue(n, c.vars["nir_1"].data[idx], c.vars["red"].data[idx],
                                    c.vars["blue"].data[idx])] ]
      ELSE c.vars[n]] ]

ArdBands == {"red", "green", "blue", "nir_1"}

\* ds = load_ard(dc, products = ['s2_l2a'], time = ("2020-01-01", "2020-12-31"),
\*               measurements = ['red', 'green', 'blue', 'nir_1'], ...): the bands
\* as floating point with the pixels without data masked.
LoadArd(archive) ==
  ToF32(DcLoad(archive, Day(2020, 1, 1), Day(2020, 12, 31), ArdBands))

\* ---------------------------------------------------------------- chunks and the task graph
\* A chunk plan gives the block size along each axis (dask_chunks =
\* {'time': 1, 'x': 1000, 'y': 1000}); a block size beyond the axis means one
\* block.  A chunk is named by its block number along time, y and x.
NumChunks(n, size) == (n + size - 1) \div size

ChunkKeys(coords, plan) ==
  { k \in [1..Len(AxisOrder) -> 0..MaxScenes] :
      \A a \in 1..Len(AxisOrder) :
        k[a] < NumChunks(Len(coords[AxisOrder[a]]), plan[AxisOrder[a]]) }

\* ChunkStart as it would be if every block were read from the start of the axis.
ChunkStartZero(b, size) == 0

\* First position of block number b of an axis cut in blocks of the given size.
ChunkStart(b, size) == b * size

ChunkShape(coords, plan, k) ==
  [a \in 1..Len(AxisOrder) |->
     Min(plan[AxisOrder[a]],
         Len(coords[AxisOrder[a]]) - ChunkStart(k[a], plan[AxisOrder[a]]))]

\* The position in the whole array of position loc of chunk k.
GlobalIndex(plan, k, loc) ==
  [a \in 1..Len(AxisOrder) |-> ChunkStart(k[a], plan[AxisOrder[a]]) + loc[a]]

\* The chunk that holds a position of the whole array, and the position in it.
ChunkOf(plan, idx) == [a \in 1..Len(AxisOrder) |-> idx[a] \div plan[AxisOrder[a]]]
LocalIndex(plan, idx) == [a \in 1..Len(AxisOrder) |-> idx[a] % plan[AxisOrder[a]]]

\* A node of the task graph: an operation on one chunk.
Node(op, k) == [op |-> op, chunk |-> k]

\* The nodes a node reads: an index block is computed from the loaded block of
\* the same chunk.
Deps(node) == IF node.op = "index" THEN { Node("load", node.chunk) } ELSE {}

\* load_ard(.., dask_chunks = plan): the coordinates and attributes are read,
\* the pixel values are left as one load node a chunk.
LoadArdLazy(archive, plan) ==
  LET meta == DcLoad(archive, Day(2020, 1, 1), Day(2020, 12, 31), {}) IN
  [ dims |-> meta.dims, coords |-> meta.coords, point |-> meta.point,
    attrs |-> meta.attrs, plan |-> plan,
    names |-> ArdBands,
    graph |-> { Node("load", k) : k \in ChunkKeys(meta.coords, plan) } ]

\* calculate_indices on a lazy dataset: three more variables, and one index
\* node a chunk added to the graph.
CalculateIndicesLazy(z) ==
  [ z EXCEPT !.names = z.names \cup IndexNames,
             !.graph = z.graph \cup { Node("index", n.chunk) : n \in z.graph } ]

\* LoadBlock as it would be if the lazy load did not mask the pixels without data.
LoadBlockRaw(z, k) ==
  [ b \in ArdBands |->
      [ loc \in IndexSpace(ChunkShape(z.coords, z.plan, k)) |->
          LET g == GlobalIndex(z.plan, k, loc)
          IN DN(b, z.coords["time"][g[1] + 1], g[2], g[3]) ] ]

\* What a load node computes: the pixels of its chunk, band by band.
LoadBlock(z, k) ==
  [ b \in ArdBands |->
      [ loc \in IndexSpace(ChunkShape(z.coords, z.plan, k)) |->
          LET g == GlobalIndex(z.plan, k, loc)
              v == DN(b, z.coords["time"][g[1] + 1], g[2], g[3])
          IN IF v = NoData THEN NaN ELSE v ] ]

\* What an index node computes from the loaded block of its chunk.
IndexBlock(blk) ==
  [ n \in IndexNames |->
      [ loc \in DOMAIN blk["red"] |->
          IndexValue(n, blk["nir_1"][loc], blk["red"][loc], blk["blue"][loc]) ] ]

\* The block of a node, given the blocks stored for the nodes it reads.
RunNode(z, node, blocks) ==
  IF node.op = "load" THEN LoadBlock(z, node.chunk)
  ELSE IndexBlock(blocks[Node("load", node.chunk)])

\* What a position of the output holds while no block has been written to it.
Unfilled == NaN - 1

\* The eager dataset put together from the blocks of all nodes: each value is
\* read from the block of the chunk that holds its position.
Assemble(z, blocks) ==
  [ dims |-> z.dims, coords |-> z.coords, point |-> z.point, attrs |-> z.attrs,
    vars |-> [ n \in z.names |->
      [ dims |-> AxisOrder,
        dtype |-> "float32",
        data |-> [ idx \in IndexSpace(ShapeOf(z.coords, AxisOrder)) |->
                     LET node == Node(IF n \in IndexNames THEN "index" ELSE "load",
                                      ChunkOf(z.plan, idx))
                     IN IF node \in DOMAIN blocks
                        THEN blocks[node][n][LocalIndex(z.plan, idx)]
                        ELSE Unfilled ] ] ] ]

\* The blocks of a graph computed node by node, the load nodes first.
AllBlocks(z) ==
  LET loads == [ n \in { m \in z.graph : m.op = "load" } |-> LoadBlock(z, n.chunk) ]
  IN [ n \in z.graph |->
         IF n.op = "load" THEN loads[n] ELSE IndexBlock(loads[Node("load", n.chunk)]) ]

\* compute() run to its end on one worker.
Materialize(z) == Assemble(z, AllBlocks(z))

\* The chunk plans tried: one time step a block and the whole image in it, as
\* in the notebook; everything in one block; the columns cut in two; and time
\* and columns both cut in two, into blocks of unequal size.
Plans ==
  { [time |-> 1, y |-> NY, x |-> NX],
    [time |-> MaxScenes, y |-> NY, x |-> NX],
    [time |-> MaxScenes, y |-> NY, x |-> (NX + 1) \div 2],
    [time |-> (MaxScenes + 1) \div 2, y |-> NY, x |-> (NX + 1) \div 2] }

\* ---------------------------------------------------------------- the notebook session
VARIABLES
  archive,   \* the days the product holds a scene for
  ds,        \* the dataset the notebook has bound to ds
  loaded,    \* whether the load cell has run
  out,       \* the value of the last cell
  err,       \* the exception the last cell raised, "none" if it returned
  last,      \* the last cell: its operation, its arguments and its input
  lz,        \* the lazy dataset of the dask notebook: metadata, plan, task graph
  chain,     \* the deferred operations recorded so far
  phase,     \* "start", "lazy", "computing", "done" or "failed"
  finished,  \* the nodes whose task has completed
  store,     \* the blocks of the completed nodes
  erred,     \* the nodes whose task has failed
  ran,       \* the nodes a task was started for in the latest compute() call
  result,    \* what compute() returned
  interrupted \* whether a compute() call was abandoned

eagerVars == <<ds, loaded, out, err, last>>
lazyVars == <<lz, chain, phase, finished, store, erred, ran, result, interrupted>>
vars == <<archive, ds, loaded, out, err, last, lz, chain, phase, finished, store, erred,
          ran, result, interrupted>>

Cell(op, axis, s, lo, hi, inp) ==
  [op |-> op, axis |-> axis, s |-> s, lo |-> lo, hi |-> hi, inp |-> inp]

NoLabel == Timestamp(0)

\* Strictly increasing lists of positions of an axis of length n, the empty
\* list, and one list that runs off the end.
PositionLists(n) ==
  { SortedLabels(S) : S \in SUBSET (0..(n - 1)) } \cup { <<n>> }

\* Date strings the notebooks write as bounds of a label slice.
LowerBounds == { Day(2020, 12, 1), Day(2020, 1, 1), Day(2018, 1, 1), Day(2020, 12, 25) }
UpperBounds ==
  { Day(2020, 12, 25), Day(2020, 2, 31), Day(2018, 1, 31), Day(2020, 1, 31),
    Day(2020, 12, 1) }

\* Labels the notebooks select a single time with.
PeriodLabels ==
  { Month(2020, 12), Year(2019), Month(2020, 11), Month(2020, 10), Day(2020, 12, 25),
    Day(2020, 2, 31) }

Stamps(c) ==
  IF "time" \in Dims(c) THEN { Timestamp(t) : t \in Range(c.coords["time"]) } ELSE {}

\* The kernel is idle between two cells; a cell leaves its value in out.
Idle == last.op = "idle"

Finish(r, cell) ==
  /\ out' = r.val
  /\ err' = r.err
  /\ last' = cell
  /\ UNCHANGED <<archive, ds, loaded>>
  /\ UNCHANGED lazyVars

NoBlocks == [n \in {} |-> 0]

NoLazy ==
  [ dims |-> <<>>, coords |-> NoPoint, point |-> NoPoint, attrs |-> Nothing.attrs,
    plan |-> [time |-> 1, y |-> 1, x |-> 1], names |-> {}, graph |-> {} ]

EagerStart ==
  /\ ds = Nothing
  /\ loaded = FALSE
  /\ out = Nothing
  /\ err = "none"
  /\ last = Cell("none", "", AtInt(0), NoLabel, NoLabel, Nothing)

LazyStart ==
  /\ lz = NoLazy
  /\ chain = <<>>
  /\ phase = "start"
  /\ finished = {}
  /\ store = NoBlocks
  /\ erred = {}
  /\ ran = {}
  /\ result = Nothing
  /\ interrupted = FALSE

Init ==
  /\ archive \in Archives
  /\ EagerStart
  /\ LazyStart

\* The queries of the notebooks:
\*   dc.load(product = "s2_l2a", time = ("2020-10-01", "2020-12-31"),
\*           measurements = ["blue", "green", "red", "nir"], ...)
\*   dc.load(product = "s2_l2a", time = ("2020-01-01", "2020-05-31"),
\*           measurements = ["blue", "green", "red", "nir_1"], ...)
Queries ==
  { [lo |-> Day(2020, 10, 1), hi |-> Day(2020, 12, 31),
     bands |-> {"blue", "green", "red", "nir"}],
    [lo |-> Day(2020, 1, 1), hi |-> Day(2020, 5, 31),
     bands |-> {"blue", "green", "red", "nir_1"}] }

\* ds = dc.load(...)
LoadDataset ==
  /\ ~loaded
  /\ \E q \in Queries :
       /\ ds' = DcLoad(archive, q.lo, q.hi, q.bands)
       /\ last' = Cell("load", "", AtInt(0), q.lo, q.hi, Nothing)
  /\ loaded' = TRUE
  /\ out' = ds'
  /\ err' = "none"
  /\ UNCHANGED archive
  /\ UNCHANGED lazyVars

\* A cell that rebinds or extends ds.
Rebind(c, cell) ==
  /\ ds' = c
  /\ out' = c
  /\ err' = "none"
  /\ last' = cell
  /\ UNCHANGED <<archive, loaded>>
  /\ UNCHANGED lazyVars

\* ds = odc.algo.to_f32(ds)
ConvertToF32 ==
  /\ loaded /\ Idle
  /\ "nir_1" \in VarNames(ds)
  /\ \A n \in VarNames(ds) : ds.vars[n].dtype = "uint16"
  /\ Rebind(ToF32(ds), Cell("to_f32", "", AtInt(0), NoLabel, NoLabel, ds))

\* ds['ndvi'] = (ds.nir_1 - ds.red)/(ds.nir_1 + ds.red)
AssignNdvi ==
  /\ loaded /\ Idle
  /\ {"nir_1", "red"} \subseteq VarNames(ds)
  /\ last.op = "idle" /\ ds.vars["red"].dtype = "float32"
  /\ "ndvi" \notin VarNames(ds)
  /\ Rebind(SetVar(ds, "ndvi", NormalisedDifference(ds, "nir_1", "red")),
            Cell("assign", "ndvi", AtInt(0), NoLabel, NoLabel, ds))

\* The reductions of the notebooks.
ReduceFns == {"sum", "max", "min", "mean", "median", "std"}

\* The axes a reduction over n axes goes over: "time", ["x", "y"], or all.
OverOf(n) == IF n = 1 THEN {"time"} ELSE IF n = 2 THEN {"x", "y"} ELSE {"time", "y", "x"}

\* ds.red.max(), ds.red.mean(dim = ["x", "y"]), ds.red.std(dim = "time"),
\* ds.blue.sum(dim = ["x", "y"]), ds.ndvi.mean(['x', 'y']), ds.NDVI.median(['x', 'y'])
ReduceCell ==
  /\ loaded /\ Idle
  /\ \E name \in VarNames(ds) \cap {"red", "blue", "ndvi"} :
     \E n \in 1..3 :
     \E fn \in ReduceFns :
       Finish(Ok(Reduce(GetVar(ds, name).val, OverOf(n), fn)),
              Cell(fn, name, AtInt(n), NoLabel, NoLabel, ds))

\* ds.where(ds.red > 700)
WhereCell ==
  /\ loaded /\ Idle
  /\ "red" \in VarNames(ds)
  /\ Finish(Ok(WhereGreater(ds, "red", 700, NaN)),
            Cell("where", "red", AtInt(700), NoLabel, NoLabel, ds))

\* ds.isel(time = slice(i, j)), and the same on x and y
IselSlice ==
  /\ loaded /\ Idle
  /\ \E axis \in Range(AxisOrder) : \E i, j \in 0..Len(ds.coords[axis]) :
       /\ i <= j
       /\ Finish(Isel(ds, [a \in {axis} |-> AtSlice(i, j)]),
                 Cell("isel_slice", axis, AtSlice(i, j), NoLabel, NoLabel, ds))

\* ds.isel(time = [0]), ds.isel(time = [0, 1, 2, 3, 4])
IselList ==
  /\ loaded /\ Idle
  /\ \E axis \in Range(AxisOrder) : \E pos \in PositionLists(Len(ds.coords[axis])) :
       Finish(Isel(ds, [a \in {axis} |-> AtList(pos)]),
              Cell("isel_list", axis, AtList(pos), NoLabel, NoLabel, ds))

\* data[['red', 'green']].isel(time = 1): one position of one axis
IselInt ==
  /\ loaded /\ Idle
  /\ \E axis \in Range(AxisOrder) : \E p \in 0..Len(ds.coords[axis]) :
       Finish(Isel(ds, [a \in {axis} |-> AtInt(p)]),
              Cell("isel_int", axis, AtInt(p), NoLabel, NoLabel, ds))

\* ds.isel(x = 2, y = 5)
IselPixel ==
  /\ loaded /\ Idle
  /\ \E c \in 0..NX, r \in 0..NY :
       Finish(Isel(ds, [a \in {"x", "y"} |-> IF a = "x" THEN AtInt(c) ELSE AtInt(r)]),
              Cell("isel_pixel", "xy", AtSlice(c, r), NoLabel, NoLabel, ds))

\* ds2 = ds.isel(time = slice(0, 5), x = slice(0, 5), y = slice(0, 5))
IselCube ==
  /\ loaded /\ Idle
  /\ \E i, j \in 0..Max(Max(NX, NY), Len(ds.coords["time"])) :
       /\ i <= j
       /\ Finish(Isel(ds, [a \in Range(AxisOrder) |-> AtSlice(i, j)]),
                 Cell("isel_cube", "all", AtSlice(i, j), NoLabel, NoLabel, ds))

\* ds.sel(time = slice("2020-12-01", "2020-12-25"))
SelTimeSlice ==
  /\ loaded /\ Idle
  /\ \E lo \in LowerBounds \cup Stamps(ds), hi \in UpperBounds \cup Stamps(ds) :
       Finish(SelSlice(ds, "time", lo, hi),
              Cell("sel_slice", "time", AtInt(0), lo, hi, ds))

\* ds.sel(time = '2020-12'), ds.sel(time = '2019')
SelTime ==
  /\ loaded /\ Idle
  /\ \E lab \in PeriodLabels \cup Stamps(ds)
                  \cup { Timestamp(t.t + 1) : t \in Stamps(ds) } :
       Finish(SelLabel(ds, "time", lab),
              Cell("sel_label", "time", AtInt(0), lab, lab, ds))

\* ds.blue[0], ds.blue[0][0], ds.blue[0][0][0]
RECURSIVE GetItems(_, _, _)
GetItems(r, idx, k) ==
  IF k > Len(idx) \/ r.err # "none" THEN r
  ELSE GetItems(GetItem(r.val, idx[k]), idx, k + 1)

ArrayAt ==
  /\ loaded /\ Idle
  /\ \E name \in VarNames(ds) : \E n \in 1..Len(AxisOrder) :
     \E idx \in [1..n -> 0..NX] :
       Finish(GetItems(GetVar(ds, name), idx, 1),
              Cell("getitem", name, AtList(idx), NoLabel, NoLabel, ds))

\* ds.blue, put into a dataset of its own
VarToDatasetCell ==
  /\ loaded /\ Idle
  /\ \E name \in VarNames(ds) :
       Finish(Ok(NewDataset(GetVar(ds, name).val)),
              Cell("var_to_dataset", name, AtInt(0), NoLabel, NoLabel, ds))

\* da = ds.sel(time = '2020-12').to_array().rename({"variable": "band"})
ToArrayCell ==
  /\ loaded /\ Idle
  /\ VarNames(ds) = Range(Measurements)
  /\ LET sel == SelLabel(ds, "time", Month(2020, 12))
         cell == Cell("to_array", "band", AtInt(0), Month(2020, 12), Month(2020, 12), ds)
     IN IF sel.err # "none" THEN Finish(sel, cell)
        ELSE Finish(Ok(ToArray(sel.val)), cell)

\* ds_reshp = da.to_dataset(dim = "time"), and da.to_dataset(dim = "band")
ToDatasetCell ==
  /\ loaded /\ Idle
  /\ VarNames(ds) = Range(Measurements)
  /\ \E d \in {"time", "band"} :
       LET sel == SelLabel(ds, "time", Month(2020, 12))
           cell == Cell("to_dataset", d, AtInt(0), Month(2020, 12), Month(2020, 12), ds)
       IN IF sel.err # "none" THEN Finish(sel, cell)
          ELSE Finish(Ok(ToDataset(ToArray(sel.val), d)), cell)

\* replace = ds.red.isel(time = 0).where(ds.red != 0, other = -9999)
ReplaceCell ==
  /\ loaded /\ Idle
  /\ "red" \in VarNames(ds)
  /\ LET first == Isel(GetVar(ds, "red").val, [a \in {"time"} |-> AtInt(0)])
         cell == Cell("where_other", "red", AtInt(0), NoLabel, NoLabel, ds)
     IN IF first.err # "none" THEN Finish(first, cell)
        ELSE Finish(Ok(Where(first.val, MaskOf(ds, "red", "!=", 0), 0 - 9999)), cell)

\* mask_red = ds.red.isin(range(550))
IsinCell ==
  /\ loaded /\ Idle
  /\ "red" \in VarNames(ds)
  /\ Finish(Ok(MaskOf(ds, "red", "isin", 550)),
            Cell("isin", "red", AtInt(550), NoLabel, NoLabel, ds))

\* ds.where(mask_red)
WhereMaskCell ==
  /\ loaded /\ Idle
  /\ "red" \in VarNames(ds)
  /\ Finish(Ok(Where(ds, MaskOf(ds, "red", "isin", 550), NaN)),
            Cell("where_mask", "red", AtInt(550), NoLabel, NoLabel, ds))

\* The label of ds.interp(time = ["2020-12-08"]): midnight of that day.
InterpLabel == PeriodStart(Day(2020, 12, 8))

\* The targets of an interpolation of c along time: the date of the notebook
\* and the time steps that c has itself.
InterpTargets(c) == {InterpLabel} \cup Range(c.coords["time"])

\* ds_interp = ds.interp(time = ["2020-12-08"]), and the same call with a
\* time step of ds as its target.
InterpCell ==
  /\ loaded /\ Idle
  /\ Len(ds.coords["time"]) >= 2
  /\ \E t \in InterpTargets(ds) :
       Finish(Ok(Interp(ds, t)),
              Cell("interp", "time", AtInt(t), Day(2020, 12, 8), Day(2020, 12, 8), ds))

\* ds.merge(ds_interp)
MergeCell ==
  /\ loaded /\ Idle
  /\ Len(ds.coords["time"]) >= 2
  /\ Finish(Merge(ds, Interp(ds, InterpLabel)),
            Cell("merge", "time", AtInt(0), Day(2020, 12, 8), Day(2020, 12, 8), ds))

\* The operation of a grouping cell and the reduction it ends with.
GroupOps == {"groupby.mean", "groupby.median"}
ResampleOps == {"resample.mean", "resample.median"}
FnOf(op) == IF op \in {"groupby.mean", "resample.mean"} THEN "mean" ELSE "median"

\* ds.groupby('time.season').mean(), ds.groupby("time.year").median(dim = "time")
GroupCell ==
  /\ loaded /\ Idle
  /\ Len(ds.coords["time"]) > 0
  /\ \E by \in {"year", "season"} : \E op \in GroupOps :
       Finish(Ok(GroupBy(ds, by, FnOf(op))),
              Cell(op, by, AtInt(0), NoLabel, NoLabel, ds))

\* ds.resample(time = 'm').median(), .resample(time = '1w').mean()
ResampleCell ==
  /\ loaded /\ Idle
  /\ Len(ds.coords["time"]) > 0
  /\ \E rule \in {"m", "1w"} : \E op \in ResampleOps :
       Finish(Ok(Resample(ds, rule, FnOf(op))),
              Cell(op, rule, AtInt(0), NoLabel, NoLabel, ds))

\* The next cell is started ("In[ ]:").
NewCell ==
  /\ last.op \notin {"none", "idle"}
  /\ out' = Nothing
  /\ err' = "none"
  /\ last' = Cell("idle", "", AtInt(0), NoLabel, NoLabel, Nothing)
  /\ UNCHANGED <<archive, ds, loaded>>
  /\ UNCHANGED lazyVars

Next ==
  \/ LoadDataset
  \/ NewCell
  \/ ConvertToF32
  \/ AssignNdvi
  \/ ReduceCell
  \/ WhereCell
  \/ ArrayAt
  \/ IselSlice
  \/ IselList
  \/ IselInt
  \/ IselPixel
  \/ IselCube
  \/ SelTimeSlice
  \/ SelTime
  \/ GroupCell
  \/ ResampleCell
  \/ ReplaceCell
  \/ IsinCell
  \/ WhereMaskCell
  \/ InterpCell
  \/ MergeCell
  \/ VarToDatasetCell
  \/ ToArrayCell
  \/ ToDatasetCell

Spec == Init /\ [][Next]_vars

\* ---------------------------------------------------------------- a time axis over two years
\* Scenes around the turn of the year 2020/2021.
TurnOfYearDays ==
  { DayNumber(2020, 11, 30), DayNumber(2020, 12, 1), DayNumber(2020, 12, 25),
    DayNumber(2020, 12, 31), DayNumber(2021, 1, 1), DayNumber(2021, 1, 14),
    DayNumber(2021, 2, 13) }

TurnOfYearArchives ==
  { A \in SUBSET TurnOfYearDays : Cardinality(A) = Min(MaxScenes, Cardinality(TurnOfYearDays)) }

InitTwoYears ==
  /\ archive \in TurnOfYearArchives
  /\ EagerStart
  /\ LazyStart

\* The load of the notebook with a time range that runs over the turn of the
\* year: ds = dc.load(product = "s2_l2a", time = ("2020-10-01", "2021-03-31"), ...)
LoadTwoYears ==
  /\ ~loaded
  /\ ds' = DcLoad(archive, Day(2020, 10, 1), Day(2021, 3, 31),
                  {"blue", "green", "red", "nir"})
  /\ last' = Cell("load", "", AtInt(0), Day(2020, 10, 1), Day(2021, 3, 31), Nothing)
  /\ loaded' = TRUE
  /\ out' = ds'
  /\ err' = "none"
  /\ UNCHANGED archive
  /\ UNCHANGED lazyVars

NextTwoYears ==
  \/ LoadTwoYears
  \/ GroupCell
  \/ NewCell

SpecTwoYears == InitTwoYears /\ [][NextTwoYears]_vars

\* ---------------------------------------------------------------- the analysis notebook
\* ds = load_ard(dc = dc, products = ['s2_l2a'], ...): ds is bound anew.
LoadArdCell ==
  /\ loaded /\ Idle
  /\ "nir_1" \in VarNames(ds)
  /\ VarNames(ds) \cap IndexNames = {}
  /\ Rebind(LoadArd(archive),
            Cell("load_ard", "", AtInt(0), Day(2020, 1, 1), Day(2020, 12, 31), ds))

\* ds = calculate_indices(ds, index = ['NDVI', 'EVI', 'SAVI'], collection = 's2')
IndicesCell ==
  /\ loaded /\ Idle
  /\ VarNames(ds) = ArdBands
  /\ ds.vars["red"].dtype = "float32"
  /\ Rebind(CalculateIndices(ds),
            Cell("indices", "", AtInt(0), NoLabel, NoLabel, ds))

NextAnalysis ==
  \/ LoadDataset
  \/ ConvertToF32
  \/ AssignNdvi
  \/ LoadArdCell
  \/ IndicesCell
  \/ NewCell

SpecAnalysis == Init /\ [][NextAnalysis]_vars

\* ---------------------------------------------------------------- the plotting notebook
\* Scenes of May to July 2020.
PlotDays ==
  { DayNumber(2020, 5, 3), DayNumber(2020, 5, 18), DayNumber(2020, 6, 2),
    DayNumber(2020, 6, 17), DayNumber(2020, 7, 2), DayNumber(2020, 7, 27) }

PlotArchives ==
  { A \in SUBSET PlotDays : Cardinality(A) = Min(MaxScenes, Cardinality(PlotDays)) }

InitPlot ==
  /\ archive \in PlotArchives
  /\ EagerStart
  /\ LazyStart

\* data = dc.load(product = "s2_l2a", time = ("2020-05-01", "2020-07-31"),
\*                measurements = ["blue", "green", "red", "nir", "swir_1", "SCL"], ...)
LoadPlot ==
  /\ ~loaded
  /\ ds' = DcLoad(archive, Day(2020, 5, 1), Day(2020, 7, 31),
                  {"blue", "green", "red", "nir", "swir_1", "SCL"})
  /\ last' = Cell("load", "", AtInt(0), Day(2020, 5, 1), Day(2020, 7, 31), Nothing)
  /\ loaded' = TRUE
  /\ out' = ds'
  /\ err' = "none"
  /\ UNCHANGED archive
  /\ UNCHANGED lazyVars

\* data.isel(time = [0, 4, 5, 7, 9, 11]).green.where(data.SCL != 9), for every
\* list of time steps, and masked = data.green.where(data.SCL != 9) for the
\* list of all of them.
MaskSubsetCell ==
  /\ loaded /\ Idle
  /\ \E pos \in PositionLists(Len(ds.coords["time"])) :
       LET sub == Isel(ds, [a \in {"time"} |-> AtList(pos)])
           cell == Cell("where_subset", "time", AtList(pos), NoLabel, NoLabel, ds)
       IN IF sub.err # "none" THEN Finish(sub, cell)
          ELSE Finish(WhereAligned(GetVar(sub.val, "green").val,
                                   MaskOf(ds, "SCL", "!=", 9), NaN), cell)

NextPlot ==
  \/ LoadPlot
  \/ MaskSubsetCell
  \/ NewCell

SpecPlot == InitPlot /\ [][NextPlot]_vars

\* ---------------------------------------------------------------- the dask notebook
\* The scenes of the area of interest of the dask notebook: the year 2020 from
\* its first acquisition on.
LazyArchives ==
  { A \in Archives : \A d \in A : \A e \in SceneDays \ A : d < e }

InitLazy ==
  /\ archive \in LazyArchives
  /\ EagerStart
  /\ LazyStart

\* ds = load_ard(dc = dc, ..., dask_chunks = {'time': 1, 'x': 1000, 'y': 1000})
LoadLazy ==
  /\ phase = "start"
  /\ \E plan \in Plans : lz' = LoadArdLazy(archive, plan)
  /\ chain' = <<"load_ard">>
  /\ phase' = "lazy"
  /\ UNCHANGED <<finished, store, erred, ran, result, interrupted>>
  /\ UNCHANGED <<archive, eagerVars>>

\* ds = calculate_indices(ds, index = ['NDVI', 'EVI', 'SAVI'], collection = 's2')
IndicesLazy ==
  /\ phase = "lazy"
  /\ chain = <<"load_ard">>
  /\ lz' = CalculateIndicesLazy(lz)
  /\ chain' = Append(chain, "calculate_indices")
  /\ UNCHANGED <<phase, finished, store, erred, ran, result, interrupted>>
  /\ UNCHANGED <<archive, eagerVars>>

\* ds = ds.compute(): the call is made and the graph goes to the scheduler.
StartCompute ==
  /\ phase \in {"lazy", "abandoned"}
  /\ phase' = "computing"
  /\ ran' = {}
  /\ UNCHANGED <<lz, chain, finished, store, erred, result, interrupted>>
  /\ UNCHANGED <<archive, eagerVars>>

\* The chunks of a graph in order, as a sequence.
RECURSIVE ChunksInOrder(_)
ChunksInOrder(K) ==
  IF K = {} THEN <<>>
  ELSE LET Before(a, b) ==
             \E i \in 1..Len(a) : a[i] < b[i] /\ \A j \in 1..(i - 1) : a[j] = b[j]
           first == CHOOSE k \in K : \A o \in K \ {k} : Before(k, o)
       IN <<first>> \o ChunksInOrder(K \ {first})

\* SlotOf as it would be if the blocks were kept in the order of completion:
\* the n-th block of an operation to arrive goes to the place of the n-th chunk.
SlotByArrival(node, done) ==
  Node(node.op,
       ChunksInOrder({ n.chunk : n \in lz.graph })
         [Cardinality({ n \in done : n.op = node.op }) + 1])

\* Where the block of a completed node is kept: under the node.
SlotOf(node, done) == node

\* AfterTask as it would be if a task cut the time coordinate to its chunk.
AfterTaskTrims(z, node) ==
  [ z EXCEPT !.coords =
      [ a \in DOMAIN z.coords |->
          IF a = "time"
          THEN SubSeq(z.coords[a], 1, Min(Len(z.coords[a]), node.chunk[1] + 1))
          ELSE z.coords[a] ] ]

\* The lazy dataset after a task has run: a task reads and writes blocks only.
AfterTask(z, node) == z

\* Scheduled as it would be if the tasks of a lazy dataset ran as soon as
\* the graph is there.
ScheduledAtOnce(p) == p \in {"lazy", "computing"}

\* The workers run tasks while a compute() call is under way, and only then.
Scheduled(p) == p = "computing"

\* A worker completes the task of a node whose inputs are there.
RunTask ==
  /\ Scheduled(phase)
  /\ \E node \in lz.graph \ (finished \cup erred) :
       /\ Deps(node) \subseteq finished
       /\ LET slot == SlotOf(node, finished)
              blk == RunNode(lz, node, store)
          IN store' = [ n \in DOMAIN store \cup {slot} |->
                          IF n = slot THEN blk ELSE store[n] ]
       /\ finished' = finished \cup {node}
       /\ ran' = ran \cup {node}
       /\ lz' = AfterTask(lz, node)
  /\ UNCHANGED <<chain, phase, erred, result, interrupted>>
  /\ UNCHANGED <<archive, eagerVars>>

\* The task of a load node fails: the data cannot be read.
FailTask ==
  /\ phase = "computing"
  /\ erred = {}
  /\ \E node \in lz.graph \ (finished \cup erred) :
       /\ node.op = "load"
       /\ erred' = erred \cup {node}
       /\ ran' = ran \cup {node}
  /\ UNCHANGED <<lz, chain, phase, finished, store, result, interrupted>>
  /\ UNCHANGED <<archive, eagerVars>>

\* Complete as it would be if compute() returned as soon as the loads were done.
CompleteLoads(graph, done) == { n \in graph : n.op = "load" } \subseteq done

\* compute() may return once the task of every node has completed.
Complete(graph, done) == graph \subseteq done

\* compute() returns the dataset put together from the blocks.
ReturnResult ==
  /\ phase = "computing"
  /\ erred = {}
  /\ Complete(lz.graph, finished)
  /\ result' = Assemble(lz, store)
  /\ phase' = "done"
  /\ UNCHANGED <<lz, chain, finished, store, erred, ran, interrupted>>
  /\ UNCHANGED <<archive, eagerVars>>

\* compute() raises the error of the failed task; nothing is returned.
RaiseFailure ==
  /\ phase = "computing"
  /\ erred # {}
  /\ phase' = "failed"
  /\ UNCHANGED <<lz, chain, finished, store, erred, ran, result, interrupted>>
  /\ UNCHANGED <<archive, eagerVars>>

\* Abandoned as it would be if the tasks that had completed were taken out of
\* the graph.
AbandonedPruned(z, done) == [ z EXCEPT !.graph = z.graph \ done ]

\* The lazy dataset after a compute() call was abandoned: the one before it.
Abandoned(z, done) == z

\* The kernel is interrupted during compute(): the call ends with
\* KeyboardInterrupt, ds keeps the lazy dataset and the blocks computed so far
\* are dropped.
Interrupt ==
  /\ phase = "computing"
  /\ ~interrupted
  /\ lz' = Abandoned(lz, finished)
  /\ phase' = "abandoned"
  /\ finished' = {}
  /\ store' = NoBlocks
  /\ erred' = {}
  /\ interrupted' = TRUE
  /\ UNCHANGED <<chain, ran, result>>
  /\ UNCHANGED <<archive, eagerVars>>

\* A variable is lazy while it holds a graph and no values.
IsLazy(v) == "graph" \in DOMAIN v

\* Compute as it would be if the copy it returns lost the attributes.
ComputeBare(c) == [ c EXCEPT !.attrs = Nothing.attrs ]

\* compute() on a dataset that holds its values: a copy of it in which every
\* lazy variable is evaluated; it has none.
Compute(c) ==
  [ c EXCEPT !.vars = [ n \in DOMAIN c.vars |->
      IF IsLazy(c.vars[n]) THEN Materialize(c.vars[n]).vars[n] ELSE c.vars[n] ] ]

\* ds = ds.compute() once more, on the dataset compute() returned.
ComputeAgain ==
  /\ phase = "done"
  /\ result' = Compute(result)
  /\ phase' = "again"
  /\ UNCHANGED <<lz, chain, finished, store, erred, ran, interrupted>>
  /\ UNCHANGED <<archive, eagerVars>>

\* ds.NDVI.isel(time = 1).data.visualize(filename = 'graph.svg'): the graph of
\* one time step is drawn; ds and its graph stay as they are.
VisualizeLazy ==
  /\ phase = "lazy"
  /\ chain = <<"load_ard", "calculate_indices">>
  /\ last.op = "none"
  /\ out' = Nothing
  /\ err' = IF Len(lz.coords["time"]) > 1 THEN "none" ELSE "IndexError"
  /\ last' = Cell("visualize", "NDVI", AtInt(1), NoLabel, NoLabel, Nothing)
  /\ UNCHANGED <<archive, ds, loaded>>
  /\ UNCHANGED lazyVars

\* data_frame = pd.DataFrame({"time": ds.time.values});
\* data_frame['NDVI'] = ds.NDVI.median(['x', 'y']).values, on the dataset that
\* compute() returned.
ReadFrame ==
  /\ phase = "done"
  /\ "NDVI" \in VarNames(result)
  /\ last.op # "frame"
  /\ out' = Reduce(GetVar(result, "NDVI").val, {"x", "y"}, "median")
  /\ err' = "none"
  /\ last' = Cell("frame", "NDVI", AtInt(0), NoLabel, NoLabel, result)
  /\ UNCHANGED <<archive, ds, loaded>>
  /\ UNCHANGED lazyVars

NextLazy ==
  \/ VisualizeLazy
  \/ ReadFrame
  \/ LoadLazy
  \/ IndicesLazy
  \/ StartCompute
  \/ RunTask
  \/ FailTask
  \/ ReturnResult
  \/ RaiseFailure
  \/ Interrupt
  \/ ComputeAgain

SpecLazy == InitLazy /\ [][NextLazy]_vars

\* ---------------------------------------------------------------- properties of selection
Returned == err = "none"

\* The axes a selection cell puts a selector on.
SelectedAxes(cell) ==
  IF cell.axis = "xy" THEN {"x", "y"}
  ELSE IF cell.axis = "all" THEN Range(AxisOrder)
  ELSE {cell.axis}

\* The values of variable n of container c along axis a, position by position:
\* position p of axis a of c holds what position q of axis a of d holds.
SameAlong(c, p, d, q, a) ==
  \A n \in VarNames(c) :
    LET k == IndexOf(c.vars[n].dims, a) IN
    \A idx \in DOMAIN c.vars[n].data :
      idx[k] = p => c.vars[n].data[idx] = d.vars[n].data[[idx EXCEPT ![k] = q]]

\* C1: a position slice [i, j) of an axis with 0 <= i <= j <= len returns
\* exactly j - i elements, the elements at the original positions i..j-1 in
\* their order, and the same container as the explicit list of those positions.
C1_PositionSliceHalfOpen ==
  last.op = "isel_slice" =>
    LET a == last.axis
        i == last.s.i
        j == last.s.j
    IN /\ Returned
       /\ a \in Dims(out)
       /\ Len(out.coords[a]) = j - i
       /\ \A p \in 0..(j - i - 1) :
            /\ out.coords[a][p + 1] = last.inp.coords[a][i + p + 1]
            /\ SameAlong(out, p, last.inp, i + p, a)
       /\ \A n \in VarNames(out) :
            DOMAIN out.vars[n].data = IndexSpace(ShapeOf(out.coords, out.vars[n].dims))
       /\ Isel(last.inp, [x \in {a} |-> AtList(Arange(i, j))]) = Ok(out)

\* The first two of three time steps are selected and the first element of the
\* result is the original position 0.
C1_Witness ==
  /\ last.op = "isel_slice" /\ last.axis = "time" /\ Returned
  /\ last.s.i = 0 /\ last.s.j = 2
  /\ Len(last.inp.coords["time"]) = 3
  /\ Len(out.coords["time"]) = 2
  /\ out.coords["time"][1] = last.inp.coords["time"][1]

\* A label L is not before the lower bound / not after the upper bound of a
\* label slice; a date string bounds the days, a timestamp the instants.
NotBefore(L, lo) ==
  IF lo.res = "tick" THEN L >= lo.t ELSE DayOf(L) >= DayNumber(lo.y, lo.m, lo.d)
NotAfter(L, hi) ==
  IF hi.res = "tick" THEN L <= hi.t ELSE DayOf(L) <= DayNumber(hi.y, hi.m, hi.d)

\* C2: a label slice (lo, hi) of the time axis keeps exactly the samples whose
\* label lies in [lo, hi], both ends included, in their order and with their
\* values.
C2_LabelSliceInclusive ==
  (last.op = "sel_slice" /\ Returned) =>
    LET labels == last.inp.coords["time"]
        inside == { k \in 1..Len(labels) :
                      NotBefore(labels[k], last.lo) /\ NotAfter(labels[k], last.hi) }
        kept == out.coords["time"]
    IN /\ "time" \in Dims(out)
       /\ Len(kept) = Cardinality(inside)
       /\ \A k \in inside : \E p \in 1..Len(kept) :
            /\ kept[p] = labels[k]
            /\ SameAlong(out, p - 1, last.inp, k - 1, "time")
       /\ StrictlyIncreasing(kept)

\* The slice ends on the day of a sample, which is kept, while samples outside
\* the bounds are dropped.
C2_Witness ==
  /\ last.op = "sel_slice" /\ Returned
  /\ last.lo = Day(2020, 12, 1) /\ last.hi = Day(2020, 12, 25)
  /\ AcqTime(DayNumber(2020, 12, 25)) \in Range(out.coords["time"])
  /\ AcqTime(DayNumber(2020, 12, 1)) \in Range(out.coords["time"])
  /\ Len(out.coords["time"]) < Len(last.inp.coords["time"])

\* A container is well shaped: every variable's axes are axes of the
\* container, and its data has one value for each position of those axes.
WellShaped(c) ==
  /\ DOMAIN c.coords = Dims(c)
  /\ \A n \in VarNames(c) :
       /\ Range(c.vars[n].dims) \subseteq Dims(c)
       /\ DOMAIN c.vars[n].data = IndexSpace(ShapeOf(c.coords, c.vars[n].dims))

ExactLabel(lab) == lab.res = "tick"

\* Container c is container d with a length-1 axis a, holding label d.point[a],
\* put back at the place it has in c.
AddsUnitAxis(c, d, a) ==
  /\ a \in Dims(c) /\ a \notin Dims(d)
  /\ Dims(c) = Dims(d) \cup {a}
  /\ c.coords[a] = <<d.point[a]>>
  /\ \A b \in Dims(d) : c.coords[b] = d.coords[b]
  /\ VarNames(c) = VarNames(d)
  /\ \A n \in VarNames(d) :
       /\ Len(c.vars[n].dims) = Len(d.vars[n].dims) + 1
       /\ \A idx \in DOMAIN d.vars[n].data :
            d.vars[n].data[idx] =
              c.vars[n].data[InsertAt(idx, IndexOf(c.vars[n].dims, a), 0)]

\* C4 as stated: selecting an axis with a single position or a single label
\* removes the axis.
C4_SingleSelectorDropsAxis ==
  (last.op \in {"isel_int", "sel_label"} /\ Returned) => last.axis \notin Dims(out)

\* C4 as amended: a single position, or a single full timestamp, removes the
\* axis from the container and from every variable; a list or a slice keeps
\* it, as long as the number of positions selected; a date string that names a
\* period keeps it too; and isel(a = p) differs from isel(a = [p]) by exactly
\* one axis of length 1.
C4_SingleDropsListKeeps ==
  /\ (last.op \in {"isel_int", "sel_label"} /\ Returned
        /\ (last.op = "sel_label" => ExactLabel(last.lo))) =>
       /\ last.axis \notin Dims(out)
       /\ \A n \in VarNames(out) : last.axis \notin Range(out.vars[n].dims)
       /\ last.axis \in DOMAIN out.point
  /\ (last.op = "isel_int" /\ Returned) =>
       AddsUnitAxis(Isel(last.inp, [x \in {last.axis} |-> AtList(<<last.s.i>>)]).val,
                    out, last.axis)
  /\ (last.op = "isel_list" /\ Returned) =>
       /\ last.axis \in Dims(out)
       /\ Len(out.coords[last.axis]) = Len(last.s.pos)
  /\ (last.op = "isel_slice" /\ Returned) =>
       /\ last.axis \in Dims(out)
       /\ Len(out.coords[last.axis]) = last.s.j - last.s.i
  /\ (last.op = "sel_label" /\ Returned /\ ~ExactLabel(last.lo)) =>
       last.axis \in Dims(out)
  /\ (last.op = "getitem" /\ Returned) =>
       /\ Len(out.dims) = Len(AxisOrder) - Len(last.s.pos)
       /\ out.dims = SubSeq(AxisOrder, Len(last.s.pos) + 1, Len(AxisOrder))

\* One position of the time axis of a dataset of three time steps is selected
\* and the result has no time axis.
C4_Witness ==
  /\ last.op = "isel_int" /\ last.axis = "time" /\ Returned
  /\ Len(last.inp.coords["time"]) = 3
  /\ out.dims = <<"y", "x">>
  /\ out.point["time"] = last.inp.coords["time"][last.s.i + 1]

\* C5: a selection keeps the full coordinate sequence of every axis it does
\* not select, the attribute dictionary and the set of variables, and leaves
\* the dataset it is applied to as it was.
C5_SelectionFrame ==
  (last.op \in {"isel_slice", "isel_list", "isel_int", "isel_pixel", "isel_cube",
                "sel_slice", "sel_label"} /\ Returned) =>
    /\ \A a \in Dims(last.inp) \ SelectedAxes(last) :
         /\ a \in Dims(out)
         /\ out.coords[a] = last.inp.coords[a]
    /\ out.attrs = last.inp.attrs
    /\ VarNames(out) = VarNames(last.inp)
    /\ ds = last.inp

\* A pixel is selected: the time axis keeps all its labels and the attributes
\* are those of the dataset.
C5_Witness ==
  /\ last.op = "isel_pixel" /\ Returned
  /\ Len(out.coords["time"]) = 3
  /\ out.coords["time"] = ds.coords["time"]
  /\ out.attrs.crs = "EPSG:32632"
  /\ out # ds

\* A label matches a sample of the index: a timestamp one that equals it, a
\* date string one inside the period it names.
Matches(labels, lab) ==
  \E k \in 1..Len(labels) : PeriodStart(lab) <= labels[k] /\ labels[k] <= PeriodEnd(lab)

\* C6 as stated: a label-based selection that names a label no sample of the
\* axis matches ends in a lookup failure.
C6_AbsentLabelFails ==
  /\ (last.op = "sel_label" /\ ValidDate(last.lo)
        /\ ~Matches(last.inp.coords["time"], last.lo)) => err = "KeyError"
  /\ (last.op = "sel_slice" /\ ValidDate(last.lo) /\ ValidDate(last.hi)
        /\ (~Matches(last.inp.coords["time"], last.lo)
              \/ ~Matches(last.inp.coords["time"], last.hi))) => err = "KeyError"

\* C6 as amended: selecting a single full timestamp that is not in the time
\* coordinate, or a date string whose period lies wholly before or after the
\* covered range, raises KeyError and returns nothing; what a label selection
\* returns lies inside the label asked for, never beside it; an out-of-range
\* position raises IndexError, a different error; a label slice with valid
\* date strings never raises, whether or not its bounds match a sample.
C6_ExactAbsentLabelFails ==
  /\ (last.op = "sel_label" /\ "time" \in Dims(last.inp)) =>
       LET labels == last.inp.coords["time"] IN
       /\ (ExactLabel(last.lo) /\ ~Matches(labels, last.lo)) =>
            (err = "KeyError" /\ out = Nothing)
       /\ (~ExactLabel(last.lo) /\ ValidDate(last.lo) /\ Len(labels) > 0
             /\ (PeriodEnd(last.lo) < labels[1]
                   \/ PeriodStart(last.lo) > labels[Len(labels)])) =>
            (err = "KeyError" /\ out = Nothing)
       /\ (Returned /\ ExactLabel(last.lo)) => out.point["time"] = last.lo.t
       /\ (Returned /\ ~ExactLabel(last.lo)) =>
            \A k \in 1..Len(out.coords["time"]) :
              /\ PeriodStart(last.lo) <= out.coords["time"][k]
              /\ out.coords["time"][k] <= PeriodEnd(last.lo)
       /\ err \in {"none", "KeyError"}
  /\ (last.op \in {"isel_int", "isel_list"} /\ ~Returned) => err = "IndexError"
  /\ (last.op = "isel_int" /\ last.s.i >= Len(last.inp.coords[last.axis])) =>
       err = "IndexError"
  /\ (last.op = "sel_slice" /\ ValidDate(last.lo) /\ ValidDate(last.hi)) => Returned

\* A timestamp one tick after a sample, which no sample has, is looked up.
C6_Witness ==
  /\ last.op = "sel_label" /\ ExactLabel(last.lo)
  /\ Len(last.inp.coords["time"]) = 3
  /\ last.lo.t - 1 \in Range(last.inp.coords["time"])
  /\ last.lo.t \notin Range(last.inp.coords["time"])
  /\ err = "KeyError"

\* ---------------------------------------------------------------- properties of materialisation
\* What the same chain of operations gives on an eagerly loaded dataset.
EagerChain(steps) ==
  IF Len(steps) = 2 THEN CalculateIndices(LoadArd(archive)) ELSE LoadArd(archive)

Replanned(z, plan) ==
  LET base == LoadArdLazy(archive, plan) IN
  IF Len(chain) = 2 THEN CalculateIndicesLazy(base) ELSE base

\* C8: what compute() returns under the chosen chunk plan is what the same
\* chain returns under every other chunk plan, values and coordinates alike.
C8_ChunkInvariance ==
  phase = "done" => \A plan \in Plans : Materialize(Replanned(lz, plan)) = result

\* A dataset cut along time and along x was materialised.
C8_Witness ==
  /\ phase = "done"
  /\ lz.plan["time"] < MaxScenes /\ lz.plan["x"] < NX
  /\ Cardinality({ n \in lz.graph : n.op = "load" }) = 4
  /\ \E plan \in Plans : plan # lz.plan /\ Materialize(Replanned(lz, plan)) = result

\* C9: compute() returns only when the task of every node has completed and
\* none has failed, and what it returns has a value at every position of every
\* variable; when a task has failed compute() does not return: it raises, and
\* no dataset, whole or partial, reaches the caller.
C9_AllOrNothing ==
  /\ phase = "done" =>
       /\ lz.graph \subseteq finished
       /\ erred = {}
       /\ VarNames(result) = lz.names
       /\ \A n \in VarNames(result) :
            DOMAIN result.vars[n].data = IndexSpace(ShapeOf(lz.coords, AxisOrder))
       /\ \A n \in VarNames(result) :
            \A idx \in DOMAIN result.vars[n].data : result.vars[n].data[idx] # Unfilled
  /\ erred # {} => (phase \in {"computing", "failed"} /\ result = Nothing)
  /\ phase = "failed" => (erred # {} /\ result = Nothing)
  /\ phase \notin {"done", "again"} => result = Nothing

\* A task failed after the tasks of other chunks had completed, and compute()
\* raised.
C9_Witness ==
  /\ phase = "failed"
  /\ finished # {}
  /\ \E n \in lz.graph : n \notin finished /\ n \notin erred
  /\ result = Nothing

\* The block of one node computed from the archive alone.
BlockOf(z, node) ==
  IF node.op = "load" THEN LoadBlock(z, node.chunk)
  ELSE IndexBlock(LoadBlock(z, node.chunk))

AsBuilt == Replanned(lz, lz.plan)

ReducedArray == GetVar(last.inp, last.axis).val

\* The positions, one on each kept axis, that select what an output position
\* of a reduction stands for.
AtPositions(keep, idx) == [ a \in Range(keep) |-> AtInt(idx[IndexOf(keep, a)]) ]

\* C14: a reduction over the axes D of an array has the axes of the array minus
\* D, in their order and each with its whole coordinate sequence, one value at
\* every combination of their positions, and that value is the reduction of
\* the values selected at that combination alone: the largest of them for max,
\* the smallest for min, a value with half of them on either side for median.
C14_ReductionPerCombination ==
  (last.op \in ReduceFns /\ err = "none") =>
    LET a == ReducedArray
        over == OverOf(last.s.i)
        keep == SelectSeq(a.dims, LAMBDA d : d \notin over)
        v == out.vars[last.axis]
    IN /\ out.dims = keep
       /\ DOMAIN out.coords = Range(keep)
       /\ \A d \in Range(keep) : out.coords[d] = a.coords[d]
       /\ DOMAIN v.data = IndexSpace(ShapeOf(a.coords, keep))
       /\ \A idx \in DOMAIN v.data :
            LET part == Isel(a, AtPositions(keep, idx)).val.vars[last.axis].data
                vals == { part[e] : e \in { q \in DOMAIN part : IsNum(part[q]) } }
            IN /\ v.data[idx] = Reduce(Isel(a, AtPositions(keep, idx)).val,
                                       over, last.op).vars[last.axis].data[<<>>]
               /\ (last.op = "max" /\ vals # {}) =>
                    (v.data[idx] \in vals /\ \A x \in vals : x <= v.data[idx])
               /\ (last.op = "min" /\ vals # {}) =>
                    (v.data[idx] \in vals /\ \A x \in vals : v.data[idx] <= x)
               /\ (last.op = "median" /\ vals # {}) =>
                    /\ 2 * Cardinality({ q \in DOMAIN part :
                                           IsNum(part[q]) /\ part[q] <= v.data[idx] })
                         >= Cardinality({ q \in DOMAIN part : IsNum(part[q]) })
                    /\ 2 * Cardinality({ q \in DOMAIN part :
                                           IsNum(part[q]) /\ part[q] >= v.data[idx] })
                         >= Cardinality({ q \in DOMAIN part : IsNum(part[q]) })

\* The median of the red band over the image was taken of three time steps,
\* and the time steps differ.
C14_Witness ==
  /\ last.op = "median" /\ last.axis = "red" /\ last.s.i = 2
  /\ out.dims = <<"time">>
  /\ Len(out.coords["time"]) = MaxScenes
  /\ \E i, j \in DOMAIN out.vars["red"].data :
       out.vars["red"].data[i] # out.vars["red"].data[j]

\* The years a time axis has a label in.
YearsOf(times) ==
  { y \in EpochYear..(EpochYear + 8) :
      \E i \in 1..Len(times) :
        PeriodStart(Year(y)) <= times[i] /\ times[i] <= PeriodEnd(Year(y)) }

SeasonNames == <<"DJF", "JJA", "MAM", "SON">>
MonthsOfSeason(k) ==
  IF k = "DJF" THEN {12, 1, 2} ELSE IF k = "JJA" THEN {6, 7, 8}
  ELSE IF k = "MAM" THEN {3, 4, 5} ELSE {9, 10, 11}

\* A time axis has a label in a season.
HasSeason(times, k) ==
  \E i \in 1..Len(times) : \E y \in EpochYear..(EpochYear + 8) : \E m \in MonthsOfSeason(k) :
    PeriodStart(Month(y, m)) <= times[i] /\ times[i] <= PeriodEnd(Month(y, m))

SeasonCell == last.op \in GroupOps /\ last.axis = "season" /\ err = "none"

\* C16 as stated: the groups of ds.groupby('time.season') come in the order in
\* which their season is first met along the time axis, so on a time axis from
\* October to December the autumn group precedes the December group.
C16_FirstEncounteredOrder ==
  SeasonCell =>
    /\ out.coords["season"] = AsMet("season", last.inp.coords["time"])
    /\ ({"SON", "DJF"} \subseteq Range(out.coords["season"])) =>
         IndexOf(out.coords["season"], "SON") < IndexOf(out.coords["season"], "DJF")

\* C16, amended: the groups of ds.groupby('time.season') come in the ascending
\* (alphabetical) order of their label whatever the order along the time axis,
\* so on a time axis from October to December the group "DJF" of the December
\* samples precedes the group "SON" of the autumn samples.
C16_SortedKeyOrder ==
  SeasonCell =>
    /\ out.coords["season"] =
         SelectSeq(SeasonNames, LAMBDA k : HasSeason(last.inp.coords["time"], k))
    /\ ({"SON", "DJF"} \subseteq Range(out.coords["season"])) =>
         IndexOf(out.coords["season"], "DJF") < IndexOf(out.coords["season"], "SON")

\* The seasons were grouped of a time axis that starts in autumn and ends in
\* December.
C16_Witness ==
  /\ SeasonCell
  /\ AsMet("season", last.inp.coords["time"]) = <<"SON", "DJF">>
  /\ out.coords["season"] = <<"DJF", "SON">>
  /\ out.dims = <<"season", "y", "x">>

ResampleCellRan == last.op \in ResampleOps /\ err = "none"

\* The first tick of the bucket that is labelled with midnight of its last
\* day: the first day of that month for 'm', six days earlier for '1w'.
BucketStart(rule, label) ==
  IF rule = "1w" THEN label - 6 * TicksPerDay
  ELSE LET ym == CHOOSE p \in (EpochYear..(EpochYear + 8)) \X (1..12) :
                   PeriodEnd(Month(p[1], p[2])) + 1 - TicksPerDay = label
       IN PeriodStart(Month(ym[1], ym[2]))

\* The last tick of that bucket: the end of its last day.
BucketEnd(label) == label + TicksPerDay - 1

\* C17: after ds.resample(time = 'm') or resample(time = '1w') followed by
\* median or mean, the buckets follow one another without gap or overlap, every
\* sample lies in exactly one of them, and the value of a bucket at a pixel is
\* the reduction over time of exactly the samples whose timestamp lies in the
\* bucket, however few they are.
C17_BucketsHoldTheirSamples ==
  ResampleCellRan =>
    LET labels == out.coords["time"]
        times == last.inp.coords["time"]
        Within(t, g) == BucketStart(last.axis, labels[g]) <= t /\ t <= BucketEnd(labels[g])
    IN /\ out.dims = <<"time", "y", "x">>
       /\ \A g \in 1..(Len(labels) - 1) :
            BucketStart(last.axis, labels[g + 1]) = BucketEnd(labels[g]) + 1
       /\ \A i \in 1..Len(times) :
            Cardinality({ g \in 1..Len(labels) : Within(times[i], g) }) = 1
       /\ \A n \in VarNames(last.inp) : \A idx \in DOMAIN out.vars[n].data :
            LET g == idx[1] + 1
                part == SelSlice(last.inp, "time",
                                 Timestamp(BucketStart(last.axis, labels[g])),
                                 Timestamp(BucketEnd(labels[g]))).val
            IN out.vars[n].data[idx] =
                 Reduce(part, {"time"}, FnOf(last.op)).vars[n].data[<<idx[2], idx[3]>>]

\* The monthly median was taken of a time axis with one sample in one month
\* and two in the next, and the two buckets differ.
C17_Witness ==
  /\ last.op = "resample.median" /\ last.axis = "m"
  /\ Len(last.inp.coords["time"]) = 3
  /\ Len(out.coords["time"]) = 2
  /\ DayOf(last.inp.coords["time"][1]) = DayNumber(2020, 11, 30)
  /\ out.coords["time"] = << DayNumber(2020, 11, 30) * TicksPerDay,
                             DayNumber(2020, 12, 31) * TicksPerDay >>
  /\ \E r \in 0..(NY - 1), c \in 0..(NX - 1) :
       out.vars["red"].data[<<0, r, c>>] # out.vars["red"].data[<<1, r, c>>]

\* The array of the example: the values 650, 700, 720 and 680 along x.
ExampleArray ==
  [ dims |-> <<"x">>,
    coords |-> [a \in {"x"} |-> <<0, 10, 20, 30>>],
    point |-> NoPoint,
    attrs |-> Nothing.attrs,
    vars |-> [n \in {"red"} |->
      [ dims |-> <<"x">>, dtype |-> "float64",
        data |-> [idx \in IndexSpace(<<4>>) |->
                    <<650, 700, 720, 680>>[idx[1] + 1]] ]] ]

C20_MergeIntersection ==
  (last.op = "merge" /\ err = "none") =>
    /\ VarNames(out) = VarNames(ds)
    /\ Range(out.coords["time"]) = Range(ds.coords["time"]) \cap {InterpLabel}
    /\ \A t \in Range(ds.coords["time"]) :
         t \in Range(out.coords["time"]) => t = InterpLabel

\* The time steps of ds before and after the target t of the last cell.
StepsBefore(t) == { i \in DOMAIN ds.coords["time"] : ds.coords["time"][i] < t }

StepsAfter(t) == { i \in DOMAIN ds.coords["time"] : ds.coords["time"][i] > t }

\* The value of variable n of ds at the pixel of idx and time step i.
AtStep(n, idx, i) ==
  ds.vars[n].data[[idx EXCEPT ![IndexOf(ds.vars[n].dims, "time")] = i - 1]]

\* C21: ds.interp(time = [t]) has the time axis <<t>>; for a target between two
\* time steps each pixel holds the combination of the nearest step before and
\* the nearest step after, weighted by the distance in time, and for a target
\* that is a time step of ds it holds the values of that step.
C21_InterpLinearBetweenNeighbours ==
  (last.op = "interp" /\ err = "none") =>
    LET t == last.s.i
        times == ds.coords["time"]
    IN /\ out.coords["time"] = <<t>>
       /\ VarNames(out) = VarNames(ds)
       /\ \A n \in VarNames(ds) : \A idx \in DOMAIN out.vars[n].data :
            /\ t \in Range(times) =>
                 out.vars[n].data[idx] = AtStep(n, idx, IndexOf(times, t))
            /\ (t \notin Range(times) /\ StepsBefore(t) # {} /\ StepsAfter(t) # {}) =>
                 LET i == CHOOSE k \in StepsBefore(t) : \A m \in StepsBefore(t) : m <= k
                     j == CHOOSE k \in StepsAfter(t) : \A m \in StepsAfter(t) : k <= m
                     v0 == AtStep(n, idx, i)
                     v1 == AtStep(n, idx, j)
                 IN out.vars[n].data[idx] =
                      IF IsNum(v0) /\ IsNum(v1)
                      THEN (v0 * (times[j] - t) + v1 * (t - times[i]))
                             \div (times[j] - times[i])
                      ELSE NaN

C21_Witness ==
  /\ last.op = "interp" /\ err = "none"
  /\ last.s.i \notin Range(ds.coords["time"])
  /\ StepsBefore(last.s.i) # {} /\ StepsAfter(last.s.i) # {}
  /\ \E idx \in DOMAIN out.vars["red"].data :
       LET v == out.vars["red"].data[idx]
       IN \E i \in StepsBefore(last.s.i) : \E j \in StepsAfter(last.s.i) :
            /\ j = i + 1
            /\ AtStep("red", idx, i) < v /\ v < AtStep("red", idx, j)

\* The target of the last interpolation lies before the first or after the
\* last time step of ds.
TargetOutside ==
  /\ last.op = "interp"
  /\ last.s.i \notin Range(ds.coords["time"])
  /\ (StepsBefore(last.s.i) = {} \/ StepsAfter(last.s.i) = {})

\* C22 as stated: an interpolation at a target outside the time axis ends in
\* an error and returns no dataset.
C22_OutsideRaises ==
  TargetOutside => (err # "none" /\ out = Nothing)

\* C22, amended: an interpolation at a target outside the time axis ends
\* without an error and returns the dataset of that one target, with the
\* missing value at every pixel of every variable.
C22_OutsideIsMissing ==
  TargetOutside =>
    /\ err = "none"
    /\ out.coords["time"] = <<last.s.i>>
    /\ VarNames(out) = VarNames(ds)
    /\ \A n \in VarNames(out) : \A idx \in DOMAIN out.vars[n].data :
         out.vars[n].data[idx] = NaN

C22_Witness ==
  /\ TargetOutside
  /\ last.s.i = InterpLabel
  /\ StepsAfter(InterpLabel) = {}
  /\ Len(ds.coords["time"]) >= 2
  /\ \E idx \in DOMAIN ds.vars["red"].data : ds.vars["red"].data[idx] > 0
  /\ DOMAIN out.vars["red"].data # {}

\* The last cell masked the green band of a valid list of time steps.
MaskSubsetRan ==
  /\ last.op = "where_subset"
  /\ \A k \in 1..Len(last.s.pos) : last.s.pos[k] < Len(ds.coords["time"])

December == SelLabel(ds, "time", Month(2020, 12)).val

FrameKept ==
  /\ VarNames(last.inp) \subseteq VarNames(ds)
  /\ \A n \in VarNames(last.inp) : ds.vars[n] = last.inp.vars[n]
  /\ ds.dims = last.inp.dims
  /\ ds.coords = last.inp.coords
  /\ ds.point = last.inp.point
  /\ ds.attrs = last.inp.attrs

\* C25: calculate_indices gives ds the three variables NDVI, EVI and SAVI, none
\* of which it had, and ds['ndvi'] = ... gives it the variable ndvi; the new
\* variables have the axes of the bands, and every variable that was there,
\* the coordinates and the attributes are as before.
C25_IndicesOnlyAdd ==
  /\ (last.op = "indices" /\ err = "none") =>
       /\ VarNames(ds) = VarNames(last.inp) \cup IndexNames
       /\ VarNames(last.inp) \cap IndexNames = {}
       /\ Cardinality(VarNames(ds)) = Cardinality(VarNames(last.inp)) + 3
       /\ \A n \in IndexNames :
            /\ ds.vars[n].dims = last.inp.vars["red"].dims
            /\ DOMAIN ds.vars[n].data = DOMAIN last.inp.vars["red"].data
       /\ FrameKept
       /\ out = ds
  /\ (last.op = "assign" /\ err = "none") =>
       /\ VarNames(ds) = VarNames(last.inp) \cup {"ndvi"}
       /\ "ndvi" \notin VarNames(last.inp)
       /\ ds.vars["ndvi"].dims = last.inp.vars["red"].dims
       /\ DOMAIN ds.vars["ndvi"].data = DOMAIN last.inp.vars["red"].data
       /\ FrameKept

\* The indices were computed of a dataset with its four bands over all time
\* steps, and NDVI has a number at some pixel.
C25_Witness ==
  /\ last.op = "indices" /\ err = "none"
  /\ VarNames(last.inp) = ArdBands
  /\ Len(ds.coords["time"]) = MaxScenes
  /\ \E idx \in DOMAIN ds.vars["NDVI"].data : IsNum(ds.vars["NDVI"].data[idx])
  /\ ds.vars["red"] = last.inp.vars["red"]

\* The last cell grouped the dataset of the load for 2020-10-01 to 2020-12-31.
GroupedAutumnLoad(by) ==
  /\ last.op \in GroupOps /\ last.axis = by /\ err = "none"
  /\ last.inp = ds
  /\ VarNames(ds) = Range(Measurements)

\* C26 as stated: ds.groupby('time.season').mean() of the dataset loaded for
\* 2020-10-01 to 2020-12-31 has the one season label "DJF".
C26_OnlyWinterLabel ==
  (GroupedAutumnLoad("season") /\ last.op = "groupby.mean") =>
    /\ out.coords["season"] = <<"DJF">>
    /\ \A i \in 1..Len(ds.coords["time"]) : KeyOf("season", ds.coords["time"][i]) = "DJF"

\* C27 as stated: ds.groupby("time.year").median(dim = "time") of the dataset
\* loaded for 2020-10-01 to 2020-12-31 has a year axis of length 2.
C27_TwoYearGroups ==
  (GroupedAutumnLoad("year") /\ last.op = "groupby.median") =>
    /\ out.dims = <<"year", "y", "x">>
    /\ Len(out.coords["year"]) = 2

\* C28 as stated: replace = ds.red.isel(time = 0).where(ds.red != 0, other =
\* -9999) has the axes y and x of the array that is masked, and holds the red
\* values of the first time step with every 0 replaced by -9999.
C28_ReplaceKeepsShape ==
  (last.op = "where_other" /\ err = "none") =>
    /\ out.dims = <<"y", "x">>
    /\ out.vars["red"].dims = <<"y", "x">>
    /\ DOMAIN out.vars["red"].data = IndexSpace(<<NY, NX>>)
    /\ \A idx \in IndexSpace(<<NY, NX>>) :
         out.vars["red"].data[idx] =
           IF ds.vars["red"].data[<<0>> \o idx] = 0 THEN 0 - 9999
           ELSE ds.vars["red"].data[<<0>> \o idx]

====
